---- MODULE Spec2Model ----
(***************************************************************************)
(* A model of tekton-assist: the resource cache (pkg/cache: Manager and    *)
(* Service over three informers) and the failure inspector                 *)
(* (pkg/inspector).                                                        *)
(*                                                                         *)
(* Go strings that the code takes apart or builds (namespaces, keys, log   *)
(* text, messages, step and container names) are sequences of one-letter   *)
(* strings, so that prefix tests, concatenation, splitting and searching   *)
(* are computed as the code computes them.  Strings that are only compared *)
(* (condition types, statuses, reasons) stay TLA+ strings.                 *)
(***************************************************************************)
EXTENDS Integers, Sequences, FiniteSets, TLC

\* ------------------------------------------------------------------ bounds

\* Remote changes (create/modify/delete) the remote store makes in one run.
MaxEvents == 1

\* Failures (list error, watch error, watch closed) the remote store causes.
MaxFaults == 1

\* Conditions and steps in the status of an inspected TaskRun.
MaxConds == 2

MaxSteps == 2

\* extractErrorSnippet is applied to logs of at most MaxLines lines, with
\* n up to MaxN.
MaxLines == 4

MaxN == 3

\* At most MaxMembers TaskRuns exist remotely when InspectPipelineRun lists.
MaxMembers == 2

\* At most MaxConns connections of the HTTP server are busy at a time.
MaxConns == 3

\* The informers apply at most MaxWrites events to their stores.
MaxWrites == 2

\* At most MaxCallers Get and List calls are made on the Service.
MaxCallers == 2

\* The characters appended to a namespace name the filter is asked about.
MaxTail == 1

\* ------------------------------------------------------------ Go strings

HasPrefix(s, p) == Len(s) >= Len(p) /\ SubSeq(s, 1, Len(p)) = p

NsDefault == <<"d","e","f","a","u","l","t">>

NsKubeSystem == <<"k","u","b","e","-","s","y","s","t","e","m">>

\* ----------------------------------------------------- namespace filter

\* The alternatives of NamespaceIgnorePattern: two unanchored-at-the-end
\* prefixes and six names anchored at both ends.
IgnorePrefixes ==
    { <<"o","p","e","n","s","h","i","f","t","-">>, <<"k","u","b","e","-">> }

IgnoreExact ==
    { <<"o","p","e","n","-","c","l","u","s","t","e","r","-","m","a","n","a","g","e","m","e","n","t","-","a","g","e","n","t","-","a","d","d","o","n">>,
      <<"o","p","e","n","-","c","l","u","s","t","e","r","-","m","a","n","a","g","e","m","e","n","t","-","a","g","e","n","t">>,
      <<"d","e","d","i","c","a","t","e","d","-","a","d","m","i","n">>,
      <<"k","u","b","e","-","n","o","d","e","-","l","e","a","s","e">>,
      <<"k","u","b","e","-","p","u","b","l","i","c">>,
      NsKubeSystem }

\* The pattern without its ^ anchors: a match may start anywhere.
NamespaceIgnorePatternUnanchored(ns) ==
    \E i \in 1..(Len(ns) + 1) :
        LET rest == SubSeq(ns, i, Len(ns))
        IN  \/ \E p \in IgnorePrefixes : HasPrefix(rest, p)
            \/ rest \in IgnoreExact

NamespaceIgnorePattern(ns) ==
    \/ \E p \in IgnorePrefixes : HasPrefix(ns, p)
    \/ ns \in IgnoreExact

allowNamespace(ns) == ~NamespaceIgnorePattern(ns)

\* ------------------------------------------------------------- variables

VARIABLES
    \* the remote object store and the caller
    namespace,   \* NewManager's namespace argument ("" = all namespaces)
    remote,      \* per kind: the objects that exist remotely
    backlog,     \* per kind: the change events after lastRV, oldest first
    events,      \* remote changes left
    faults,      \* remote failures left
    cancelled,   \* ctx.Done() is closed
    \* the three informers of Manager
    phase,       \* per kind: "idle", "list", "connect", "watch", "stopped"
    cursor,      \* per kind: how many backlog events the open watch has sent
    synced,      \* per kind: the first list has been indexed
    index,       \* per kind: the indexer's objects
    \* Manager.Start
    startPc,     \* "idle", "waiting", "ok", "canceled"
    \* one call of inspector.InspectTaskRun
    ipc,         \* "start", "logs" (the log fetch is under way), "done"
    taskRun,          \* the TaskRun the remote store holds for the inspected name
    tri,         \* the TaskRunDebugInfo being built, returned when ipc = "done"
    ierr,        \* the error returned (Nil = nil)
    logReqs,     \* the container log requests issued, in order
    logFetch,    \* "none", "failed" or "ok": how the log fetch ended
    logErr,      \* the error fetchContainerLogs returned (Nil = nil or no fetch)
    \* one call of inspector.InspectPipelineRun
    ppc,         \* "start", "list" (the TaskRuns are being listed), "done"
    pipelineRun, \* the PipelineRun the remote store holds for the inspected name
    taskRuns,    \* the TaskRuns the List returned, in list order
    result,      \* the PipelineRunDebugInfo returned (Nil = nil)
    perr,        \* the error returned (Nil = nil)
    \* one call of extractErrorSnippet
    spc,         \* "start", "done"
    snipLog,     \* the logText argument
    snipN,       \* the n argument
    snipOut,     \* the string returned
    \* one call of allowNamespace
    npc,         \* "start", "done"
    nsArg,       \* the ns argument
    nsOut,       \* the bool returned
    \* one request to httpServer
    hpc,         \* where its handler is: "validate", "inspector", "inspect",
                 \* "llm", "respond", "done"
    req,         \* the request: its path and its query parameters
    llm,         \* h.llm (Nil = nil)
    analysisText,\* the handler's analysisText
    llmErrMsg,   \* the handler's llmErrMsg
    llmCalls,    \* the calls of h.llm.Analyze: the prompt and what it returned
    hlog,        \* what the handler wrote to h.log after the request line
    resp,        \* the response: status and body (Nil = nothing written yet)
    \* httpServer.startListener and serveCmd.Run
    mainPc,      \* Run: "start", "add", "spawn", "wait" (in wg.Wait), "returned"
    sigPc,       \* the signal goroutine: "new", "wait", "shutdown", "close", "stopped", "end"
    srvPc,       \* the serving goroutine: "new", "serve", "closed", "release", "done", "end"
    wg,          \* the WaitGroup's counter
    idleConnsClosed, \* the channel is closed
    inShutdown,  \* http.Server.Shutdown has been called
    conns,       \* the connections of the server that are not idle
    signalled,   \* a SIGINT or SIGTERM is buffered in the sigint channel
    exited,      \* the process has ended without Run returning
    \* the three indexers' thread-safe stores
    stored,      \* per kind: the store's items, one object per key
    indices,     \* per kind: the namespace index, a set of <<namespace, key>>
    locked,      \* per kind: the store's RWMutex: w (write-locked), r (readers inside)
    wop,         \* per kind: the event the informer is half-way through (Nil = none)
    whole,       \* per kind: the objects after the last whole event
    writes,      \* events left to apply
    callers      \* per caller: its Get or List call (Nil = none yet)

cacheVars ==
    << namespace, remote, backlog, events, faults, cancelled, phase, cursor,
       synced, index, startPc >>

inspVars == << ipc, taskRun, tri, ierr, logReqs, logFetch, logErr >>

prVars == << ppc, pipelineRun, taskRuns, result, perr >>

snipVars == << spc, snipLog, snipN, snipOut >>

nsVars == << npc, nsArg, nsOut >>

httpVars == << hpc, req, llm, analysisText, llmErrMsg, llmCalls, hlog, resp >>

lsnVars ==
    << mainPc, sigPc, srvPc, wg, idleConnsClosed, inShutdown, conns, signalled,
       exited >>

storeVars == << stored, indices, locked, wop, whole, writes, callers >>

\* The variables of the namespace filter, the HTTP handlers, the listener
\* and the indexers' stores.
otherVars == << nsVars, httpVars, lsnVars, storeVars >>

vars == << cacheVars, inspVars, prVars, snipVars, otherVars >>

\* --------------------------------------------------------- remote store

Kinds == {"pod", "taskrun", "pipelinerun"}

TaskRunLabel == "tekton.dev/taskRun"

PipelineRunLabel == "tekton.dev/pipelineRun"

\* The objects a remote store may hold, of any kind: A in an allowed
\* namespace and K in a system namespace, both carrying the Tekton labels,
\* and B in an allowed namespace without labels.  Labels are <<key, value>>
\* pairs.
ObjA == [ns |-> NsDefault, name |-> <<"a">>,
         labels |-> {<<TaskRunLabel, "t1">>, <<PipelineRunLabel, "p1">>}]

ObjK == [ns |-> NsKubeSystem, name |-> <<"a">>,
         labels |-> {<<TaskRunLabel, "t1">>, <<PipelineRunLabel, "p1">>}]

ObjB == [ns |-> NsDefault, name |-> <<"b">>, labels |-> {}]

Universe == {ObjA, ObjK, ObjB}

Obj(u, g) == [ns |-> u.ns, name |-> u.name, labels |-> u.labels, gen |-> g]

Ident(o) == [ns |-> o.ns, name |-> o.name, labels |-> o.labels]

\* MetaNamespaceKeyFunc and the key the Service builds: namespace + "/" + name.
Key(ns, name) == ns \o <<"/">> \o name

KeyOf(o) == Key(o.ns, o.name)

\* A selector is the sequence of its comma-separated terms.
withLabelSelector(existing, add) ==
    IF existing = <<>> THEN <<add>> ELSE existing \o <<add>>

HasLabel(o, key) == \E l \in o.labels : l[1] = key

\* The remote store's answer to a selector of label-existence terms,
\* restricted to one namespace unless the namespace is "".
ServerSelects(o, ns, selector) ==
    /\ ns = <<>> \/ o.ns = ns
    /\ \A i \in 1..Len(selector) : HasLabel(o, selector[i])

Upsert(idx, o) == {x \in idx : KeyOf(x) # KeyOf(o)} \cup {o}

Remove(idx, o) == {x \in idx : KeyOf(x) # KeyOf(o)}

\* ------------------------------------------------- NewManager: ListWatch

\* The ListOptions the reflector hands to ListFunc and WatchFunc: no label
\* selector of its own.
ReflectorSelector == <<>>

Pods(ns, selector) == {o \in remote["pod"] : ServerSelects(o, ns, selector)}

TaskRuns(ns, selector) == {o \in remote["taskrun"] : ServerSelects(o, ns, selector)}

PipelineRuns(ns, selector) == {o \in remote["pipelinerun"] : ServerSelects(o, ns, selector)}

podListFunc(selector) ==
    LET list == Pods(namespace, withLabelSelector(selector, TaskRunLabel))
    IN  {p \in list : allowNamespace(p.ns)}

\* The event is sent by the remote watch and passes watch.Filter.
podWatchFunc(e, selector) ==
    /\ ServerSelects(e.obj, namespace, withLabelSelector(selector, TaskRunLabel))
    /\ allowNamespace(e.obj.ns)

trListFunc(selector) ==
    LET list == TaskRuns(namespace, selector)
    IN  {tr \in list : allowNamespace(tr.ns)}

trWatchFuncNoFilter(e, selector) ==
    ServerSelects(e.obj, namespace, selector)

trWatchFunc(e, selector) ==
    /\ ServerSelects(e.obj, namespace, selector)
    /\ allowNamespace(e.obj.ns)

prListFunc(selector) ==
    LET list == PipelineRuns(namespace, selector)
    IN  {pr \in list : allowNamespace(pr.ns)}

prWatchFunc(e, selector) ==
    /\ ServerSelects(e.obj, namespace, selector)
    /\ allowNamespace(e.obj.ns)

ListFunc(k) ==
    CASE k = "pod"         -> podListFunc(ReflectorSelector)
      [] k = "taskrun"     -> trListFunc(ReflectorSelector)
      [] k = "pipelinerun" -> prListFunc(ReflectorSelector)

WatchFunc(k, e) ==
    CASE k = "pod"         -> podWatchFunc(e, ReflectorSelector)
      [] k = "taskrun"     -> trWatchFunc(e, ReflectorSelector)
      [] k = "pipelinerun" -> prWatchFunc(e, ReflectorSelector)

\* ------------------------------------------------------------ informers

\* A HasSynced that follows the connection instead of the first list.
HasSyncedWhileConnected(k) == synced[k] /\ phase[k] \in {"connect", "watch"}

\* SharedIndexInformer.HasSynced.
HasSynced(k) == synced[k]

\* A Replace that keeps the slots of the keys that are not listed.
ReplaceListedOnly(idx, list) ==
    {o \in idx : \A l \in list : KeyOf(l) # KeyOf(o)} \cup list

\* Replace(list): every listed object takes its key's slot and every other
\* slot is removed.
Replace(idx, list) ==
    LET kept == {o \in idx : \E l \in list : KeyOf(l) = KeyOf(o)}
    IN  {o \in kept : \A l \in list : KeyOf(l) # KeyOf(o)} \cup list

\* One watch event applied to the indexer.
ApplyEvent(idx, e) ==
    IF e.type = "Deleted" THEN Remove(idx, e.obj) ELSE Upsert(idx, e.obj)

\* ------------------------------------------------------ text functions

UpperCase == <<"A","B","C","D","E","F","G","H","I","J","K","L","M",
               "N","O","P","Q","R","S","T","U","V","W","X","Y","Z">>

LowerCase == <<"a","b","c","d","e","f","g","h","i","j","k","l","m",
               "n","o","p","q","r","s","t","u","v","w","x","y","z">>

LowerChar(c) ==
    IF \E i \in 1..26 : UpperCase[i] = c
    THEN LowerCase[CHOOSE i \in 1..26 : UpperCase[i] = c]
    ELSE c

\* strings.ToLower
ToLower(s) == [i \in 1..Len(s) |-> LowerChar(s[i])]

\* strings.Contains
Contains(s, sub) ==
    \E i \in 1..(Len(s) - Len(sub) + 1) : SubSeq(s, i, i + Len(sub) - 1) = sub

\* strings.Split(s, "\n"): always at least one line.
RECURSIVE SplitLines(_)
SplitLines(s) ==
    IF \A i \in 1..Len(s) : s[i] # "\n" THEN <<s>>
    ELSE LET i == CHOOSE j \in 1..Len(s) :
                     s[j] = "\n" /\ \A h \in 1..(j - 1) : s[h] # "\n"
         IN <<SubSeq(s, 1, i - 1)>> \o SplitLines(SubSeq(s, i + 1, Len(s)))

\* strings.Join(lines, "\n")
RECURSIVE JoinLines(_)
JoinLines(lines) ==
    IF lines = <<>> THEN <<>>
    ELSE IF Len(lines) = 1 THEN lines[1]
    ELSE lines[1] \o <<"\n">> \o JoinLines(Tail(lines))

WhiteSpace == {" ", "\t", "\r", "\n"}

\* strings.TrimSpace(l) == ""
IsBlank(l) == \A i \in 1..Len(l) : l[i] \in WhiteSpace

Keywords == <<<<"e","r","r","o","r">>, <<"f","a","t","a","l">>, <<"p","a","n","i","c">>, <<"f","a","i","l">>, <<"e","x","i","t"," ","c","o","d","e">>>>

IsErrorLine(l) == \E i \in 1..Len(Keywords) : Contains(ToLower(l), Keywords[i])

\* The trimming loops of extractErrorSnippet; indices count from 0 as in Go.
RECURSIVE TrimStart(_, _, _)
TrimStart(lines, start, end) ==
    IF start < end /\ IsBlank(lines[start + 1])
    THEN TrimStart(lines, start + 1, end) ELSE start

\* A trimming that keeps trailing blank lines.
TrimEndNone(lines, start, end) == end

RECURSIVE TrimEnd(_, _, _)
TrimEnd(lines, start, end) ==
    IF end > start /\ IsBlank(lines[end])
    THEN TrimEnd(lines, start, end - 1) ELSE end

\* A window centred on the first error-like line instead of the last.
SnippetWindowFirstMatch(lines, n) ==
    LET len == Len(lines)
        hits == {i \in 0..(len - 1) : IsErrorLine(lines[i + 1])}
        matchIdx == IF hits = {} THEN -1
                    ELSE CHOOSE i \in hits : \A j \in hits : i <= j
    IN  IF matchIdx >= 0
        THEN LET half == n \div 2
                 start0 == IF matchIdx - half < 0 THEN 0 ELSE matchIdx - half
                 end0 == start0 + n
             IN IF end0 > len
                THEN [start |-> IF len - n < 0 THEN 0 ELSE len - n, end |-> len]
                ELSE [start |-> start0, end |-> end0]
        ELSE [start |-> IF len > n THEN len - n ELSE 0, end |-> len]

\* The window [start, end) of extractErrorSnippet before trimming.
SnippetWindow(lines, n) ==
    LET len == Len(lines)
        hits == {i \in 0..(len - 1) : IsErrorLine(lines[i + 1])}
        matchIdx == IF hits = {} THEN -1
                    ELSE CHOOSE i \in hits : \A j \in hits : j <= i
    IN  IF matchIdx >= 0
        THEN LET half == n \div 2
                 start0 == IF matchIdx - half < 0 THEN 0 ELSE matchIdx - half
                 end0 == start0 + n
             IN IF end0 > len
                THEN [start |-> IF len - n < 0 THEN 0 ELSE len - n, end |-> len]
                ELSE [start |-> start0, end |-> end0]
        ELSE [start |-> IF len > n THEN len - n ELSE 0, end |-> len]

extractErrorSnippet(logText, n) ==
    IF n <= 0 THEN <<>>
    ELSE LET lines == SplitLines(logText)
             w == SnippetWindow(lines, n)
             start == TrimStart(lines, w.start, w.end)
             end == TrimEnd(lines, start, w.end)
         IN JoinLines(SubSeq(lines, start + 1, end))

\* ------------------------------------------------------- the inspector

Nil == [nil |-> TRUE]

ZeroStepInfo == [Name |-> <<>>, ExitCode |-> 0]

ZeroErrorInfo ==
    [Type |-> "", Status |-> "", Reason |-> "", Message |-> <<>>, LogSnippet |-> <<>>]

\* The reasons apierrors knows (those the model's errors may carry).
KnownReasons == {"NotFound", "Forbidden", "Unauthorized", "InternalError"}

\* apierrors.IsNotFound, IsForbidden, IsUnauthorized: by the Status reason
\* of an API error, or by its HTTP code when the reason is not a known one.
IsNotFound(err) ==
    err.api /\ (err.reason = "NotFound" \/ (err.reason \notin KnownReasons /\ err.code = 404))

IsForbidden(err) ==
    err.api /\ (err.reason = "Forbidden" \/ (err.reason \notin KnownReasons /\ err.code = 403))

IsUnauthorized(err) ==
    err.api /\ (err.reason = "Unauthorized" \/ (err.reason \notin KnownReasons /\ err.code = 401))

classifyGetErrorNoUnauthorized(err) ==
    IF IsNotFound(err) THEN "NotFound"
    ELSE IF IsForbidden(err) THEN "Forbidden"
    ELSE "Unknown"

classifyGetError(err) ==
    IF IsNotFound(err) THEN "NotFound"
    ELSE IF IsForbidden(err) THEN "Forbidden"
    ELSE IF IsUnauthorized(err) THEN "Unauthorized"
    ELSE "Unknown"

NoCondition == [Type |-> "", Status |-> "", Reason |-> "", Message |-> <<>>, ok |-> FALSE]

AsFields(c) ==
    [Type |-> c.Type, Status |-> c.Status, Reason |-> c.Reason,
     Message |-> c.Message, ok |-> TRUE]

\* A lookup that takes the first condition, whatever its type.
getFirstConditionFields(t) ==
    IF t.Conditions = <<>> THEN NoCondition ELSE AsFields(t.Conditions[1])

\* A lookup that takes the last condition of type Succeeded.
getLastSucceededConditionFields(t) ==
    LET hits == {i \in 1..Len(t.Conditions) : t.Conditions[i].Type = "Succeeded"}
    IN  IF hits = {} THEN NoCondition
        ELSE AsFields(t.Conditions[CHOOSE i \in hits : \A j \in hits : j <= i])

getSucceededConditionFields(t) ==
    LET hits == {i \in 1..Len(t.Conditions) : t.Conditions[i].Type = "Succeeded"}
    IN  IF hits = {} THEN NoCondition
        ELSE AsFields(t.Conditions[CHOOSE i \in hits : \A j \in hits : i <= j])

AsStepInfo(st) == [Name |-> st.Name, ExitCode |-> st.Terminated.ExitCode]

\* A scan that returns the last failed step.
lastFailedStep(t) ==
    LET hits == {i \in 1..Len(t.Steps) :
                    t.Steps[i].Terminated # Nil /\ t.Steps[i].Terminated.ExitCode # 0}
    IN  IF hits = {} THEN [step |-> ZeroStepInfo, ok |-> FALSE]
        ELSE [step |-> AsStepInfo(t.Steps[CHOOSE i \in hits : \A j \in hits : j <= i]),
              ok |-> TRUE]

\* Both loops of firstFailedStep scan Status.Steps alike; the second can
\* find nothing the first has not.
firstFailedStep(t) ==
    LET hits == {i \in 1..Len(t.Steps) :
                    t.Steps[i].Terminated # Nil /\ t.Steps[i].Terminated.ExitCode # 0}
    IN  IF hits = {} THEN [step |-> ZeroStepInfo, ok |-> FALSE]
        ELSE [step |-> AsStepInfo(t.Steps[CHOOSE i \in hits : \A j \in hits : i <= j]),
              ok |-> TRUE]

StepPrefix == <<"s","t","e","p","-">>

\* A resolution that always applies the naming convention.
resolveFailedContainerNameByConvention(t, stepName) ==
    IF stepName # <<>> THEN StepPrefix \o stepName ELSE <<>>

resolveFailedContainerName(t, stepName) ==
    LET hits == {i \in 1..Len(t.Steps) : t.Steps[i].Name = stepName}
    IN  IF hits # {}
        THEN LET st == t.Steps[CHOOSE i \in hits : \A j \in hits : i <= j]
             IN IF st.Container # <<>> THEN st.Container ELSE StepPrefix \o stepName
        ELSE IF stepName # <<>> THEN StepPrefix \o stepName
        ELSE <<>>

\* InspectTaskRun when the Get fails: the partial record and the error.
InspectGetFailed(name, ns, err) ==
    [tri |-> [TaskRun |-> name, Namespace |-> ns, Succeeded |-> FALSE,
              FailedStep |-> ZeroStepInfo,
              Error |-> [Type |-> classifyGetError(err), Status |-> "Error",
                         Reason |-> "", Message |-> err.text, LogSnippet |-> err.text]],
     err |-> err]

ErrorFromCondition(c) ==
    [Type |-> c.Type, Status |-> c.Status, Reason |-> c.Reason,
     Message |-> c.Message, LogSnippet |-> c.Message]

\* An InspectTaskRun that fills FailedStep and Error whatever the outcome.
InspectFetchedAlways(name, ns, t) ==
    LET c == getSucceededConditionFields(t)
        failed == firstFailedStep(t)
    IN  [TaskRun |-> name, Namespace |-> ns,
         Succeeded |-> IF c.ok THEN c.Status = "True" ELSE FALSE,
         FailedStep |-> IF failed.ok THEN failed.step ELSE ZeroStepInfo,
         Error |-> ErrorFromCondition(c)]

\* InspectTaskRun from the fetched TaskRun up to the log enrichment.
InspectFetched(name, ns, t) ==
    LET c == getSucceededConditionFields(t)
        succeeded == IF c.ok THEN c.Status = "True" ELSE FALSE
        failed == firstFailedStep(t)
    IN  IF ~succeeded
        THEN [TaskRun |-> name, Namespace |-> ns, Succeeded |-> succeeded,
              FailedStep |-> IF failed.ok THEN failed.step ELSE ZeroStepInfo,
              Error |-> ErrorFromCondition(c)]
        ELSE [TaskRun |-> name, Namespace |-> ns, Succeeded |-> succeeded,
              FailedStep |-> ZeroStepInfo, Error |-> ZeroErrorInfo]

\* The inspector is built with a kube client (NewInspectorWithConfig).
KubeClient == TRUE

\* A log enrichment that does not look at the pod name.
WantsLogsWithoutPod(t, info) ==
    /\ ~info.Succeeded
    /\ info.FailedStep.Name # <<>>

\* Whether InspectTaskRun goes on to fetch the failed step's container log.
WantsLogs(t, info) ==
    /\ ~info.Succeeded
    /\ t.PodName # <<>>
    /\ info.FailedStep.Name # <<>>
    /\ KubeClient
    /\ resolveFailedContainerName(t, info.FailedStep.Name) # <<>>

TailLines == 200

SnippetLines == 10

\* A log enrichment that reports a failed log fetch to the caller.
AfterLogsStrict(info, out) ==
    IF out.err = Nil
    THEN LET snip == extractErrorSnippet(out.raw, SnippetLines)
         IN [tri |-> IF snip # <<>> THEN [info EXCEPT !.Error.LogSnippet = snip] ELSE info,
             err |-> Nil]
    ELSE [tri |-> [info EXCEPT !.Error.LogSnippet = out.err.text], err |-> out.err]

\* InspectTaskRun after fetchContainerLogs has returned (raw, err).
AfterLogs(info, out) ==
    IF out.err = Nil
    THEN LET snip == extractErrorSnippet(out.raw, SnippetLines)
         IN [tri |-> IF snip # <<>> THEN [info EXCEPT !.Error.LogSnippet = snip] ELSE info,
             err |-> Nil]
    ELSE [tri |-> info, err |-> Nil]

\* ---------------------------------------------- InspectPipelineRun: text

Digits == <<"0","1","2","3","4","5","6","7","8","9">>

\* fmt's %d of a natural number.
RECURSIVE Itoa(_)
Itoa(n) ==
    IF n < 10 THEN <<Digits[n + 1]>>
    ELSE Itoa(n \div 10) \o <<Digits[(n % 10) + 1]>>

\* strings.Join(names, ", ")
RECURSIVE JoinComma(_)
JoinComma(names) ==
    IF names = <<>> THEN <<>>
    ELSE IF Len(names) = 1 THEN names[1]
    ELSE names[1] \o <<",", " ">> \o JoinComma(Tail(names))

\* An error made by fmt.Errorf with %w: its text, and the error it wraps.
Errorf(text, cause) == [text |-> text \o cause.text, cause |-> cause]

GetPipelineRunFailed ==
    <<"f","a","i","l","e","d"," ","t","o"," ","g","e","t"," ","p","i","p","e",
      "l","i","n","e","r","u","n"," ">>

ListTaskRunsFailed ==
    <<"f","a","i","l","e","d"," ","t","o"," ","l","i","s","t"," ","t","a","s",
      "k","r","u","n","s"," ","f","o","r"," ","p","i","p","e","l","i","n","e",
      "r","u","n"," ">>

FoundFailed ==
    <<"F","o","u","n","d"," ">>

FoundFailedRest ==
    <<" ","f","a","i","l","e","d"," ","T","a","s","k","R","u","n","s","."," ",
      "R","u","n"," ","f","a","i","l","u","r","e"," ","a","n","a","l","y","s",
      "i","s"," ","o","n"," ","t","h","e"," ","i","n","d","i","v","i","d","u",
      "a","l"," ","t","a","s","k","r","u","n"," ","f","a","i","l","u","r","e",
      "s",":"," ">>

NoTaskRunsCreated ==
    <<"N","o"," ","T","a","s","k","R","u","n","s"," ","w","e","r","e"," ","c",
      "r","e","a","t","e","d","."," ","P","i","p","e","l","i","n","e","R","u",
      "n"," ","f","a","i","l","e","d"," ","d","u","r","i","n","g"," ","v","a",
      "l","i","d","a","t","i","o","n"," ","o","r"," ","s","c","h","e","d","u",
      "l","i","n","g","."," ">>

NoFailuresReported ==
    <<"P","i","p","e","l","i","n","e","R","u","n"," ","f","a","i","l","e","d",
      " ","b","u","t"," ","n","o"," ","T","a","s","k","R","u","n","s"," ","r",
      "e","p","o","r","t","e","d"," ","f","a","i","l","u","r","e","s","."," ",
      "F","o","u","n","d"," ">>

TaskRunsTotal ==
    <<" ","T","a","s","k","R","u","n","s"," ","t","o","t","a","l",".">>

CouldntGetPipelineText ==
    <<"P","i","p","e","l","i","n","e"," ","r","e","s","o","u","r","c","e"," ",
      "c","o","u","l","d"," ","n","o","t"," ","b","e"," ","f","o","u","n","d",
      " ","o","r"," ","a","c","c","e","s","s","e","d",".">>

PipelineValidationFailedText ==
    <<"P","i","p","e","l","i","n","e"," ","v","a","l","i","d","a","t","i","o",
      "n"," ","f","a","i","l","e","d",":"," ">>

CouldntGetTaskText ==
    <<"O","n","e"," ","o","r"," ","m","o","r","e"," ","t","a","s","k","s"," ",
      "r","e","f","e","r","e","n","c","e","d"," ","i","n"," ","t","h","e"," ",
      "p","i","p","e","l","i","n","e"," ","c","o","u","l","d"," ","n","o","t",
      " ","b","e"," ","f","o","u","n","d",".">>

InvalidWorkspaceBindingsText ==
    <<"W","o","r","k","s","p","a","c","e"," ","b","i","n","d","i","n","g","s",
      " ","a","r","e"," ","i","n","v","a","l","i","d"," ","o","r"," ","m","i",
      "s","s","i","n","g",".">>

ParameterMissingText ==
    <<"R","e","q","u","i","r","e","d"," ","p","a","r","a","m","e","t","e","r",
      "s"," ","a","r","e"," ","m","i","s","s","i","n","g"," ","f","r","o","m",
      " ","t","h","e"," ","P","i","p","e","l","i","n","e","R","u","n",".">>

InvalidGraphText ==
    <<"P","i","p","e","l","i","n","e"," ","h","a","s"," ","a","n"," ","i","n",
      "v","a","l","i","d"," ","d","e","p","e","n","d","e","n","c","y"," ","g",
      "r","a","p","h"," ","(","c","y","c","l","e","s"," ","o","r"," ","w","r",
      "o","n","g"," ","o","r","d","e","r",")",".">>

FailedWithReason ==
    <<"P","i","p","e","l","i","n","e","R","u","n"," ","f","a","i","l","e","d",
      " ","w","i","t","h"," ","r","e","a","s","o","n"," ","'">>

UnknownReasonText ==
    <<"P","i","p","e","l","i","n","e","R","u","n"," ","f","a","i","l","e","d",
      " ","f","o","r"," ","a","n"," ","u","n","k","n","o","w","n"," ","r","e",
      "a","s","o","n",".">>

\* The reasons analyzePipelineRunConditions knows, as the strings they are.
CouldntGetPipeline == <<"C","o","u","l","d","n","t","G","e","t","P","i","p","e","l","i","n",
      "e">>

PipelineValidationFailed ==
    <<"P","i","p","e","l","i","n","e","V","a","l","i","d","a","t","i","o","n",
      "F","a","i","l","e","d">>

CouldntGetTask == <<"C","o","u","l","d","n","t","G","e","t","T","a","s","k">>

InvalidWorkspaceBindings ==
    <<"I","n","v","a","l","i","d","W","o","r","k","s","p","a","c","e","B","i",
      "n","d","i","n","g","s">>

ParameterMissing == <<"P","a","r","a","m","e","t","e","r","M","i","s","s","i","n","g">>

InvalidGraph == <<"I","n","v","a","l","i","d","G","r","a","p","h">>

\* ------------------------------------------------- InspectPipelineRun

\* determinePipelineRunPhase where a Succeeded condition of status Unknown
\* is not told from a missing one.
determinePipelineRunPhaseNoRunning(p) ==
    LET hits == {i \in 1..Len(p.Conditions) :
                    /\ p.Conditions[i].Type = "Succeeded"
                    /\ p.Conditions[i].Status \in {"True", "False"}}
    IN  IF hits = {} THEN "Unknown"
        ELSE LET c == p.Conditions[CHOOSE i \in hits : \A j \in hits : i <= j]
             IN IF c.Status = "True" THEN "Succeeded" ELSE "Failed"

\* The loop returns at the first condition of type Succeeded whose status
\* is one of the three of the switch.
determinePipelineRunPhase(p) ==
    LET hits == {i \in 1..Len(p.Conditions) :
                    /\ p.Conditions[i].Type = "Succeeded"
                    /\ p.Conditions[i].Status \in {"True", "False", "Unknown"}}
    IN  IF hits = {} THEN "Unknown"
        ELSE LET c == p.Conditions[CHOOSE i \in hits : \A j \in hits : i <= j]
             IN CASE c.Status = "True"    -> "Succeeded"
                  [] c.Status = "False"   -> "Failed"
                  [] c.Status = "Unknown" -> "Running"

\* int64(completionTime.Sub(startTime).Seconds()), times in milliseconds:
\* the conversion truncates toward zero.
DurationSeconds(start, completion) ==
    LET d == completion - start
    IN IF d >= 0 THEN d \div 1000 ELSE 0 - ((0 - d) \div 1000)

buildPipelineRunStatus(p) ==
    [Phase |-> determinePipelineRunPhase(p),
     StartTime |-> p.StartTime,
     CompletionTime |-> p.CompletionTime,
     DurationSeconds |->
         IF p.StartTime # Nil /\ p.CompletionTime # Nil
         THEN DurationSeconds(p.StartTime.Time, p.CompletionTime.Time) ELSE 0,
     Conditions |->
         [i \in 1..Len(p.Conditions) |->
             [Type |-> p.Conditions[i].Type,
              Status |-> p.Conditions[i].Status,
              Reason |-> p.Conditions[i].Reason,
              Message |-> p.Conditions[i].Message,
              LastTransitionTime |-> p.Conditions[i].LastTransitionTime]]]

isTaskRunFailed(t) ==
    \E i \in 1..Len(t.Conditions) :
        t.Conditions[i].Type = "Succeeded" /\ t.Conditions[i].Status = "False"

getTaskRunConditionFields(t) ==
    IF \E i \in 1..Len(t.Conditions) : t.Conditions[i].Type = "Succeeded"
    THEN AsFields(t.Conditions[CHOOSE i \in 1..Len(t.Conditions) :
                      /\ t.Conditions[i].Type = "Succeeded"
                      /\ \A j \in 1..(i - 1) : t.Conditions[j].Type # "Succeeded"])
    ELSE NoCondition

\* analyzePipelineRunConditions without the case of ParameterMissing.
analyzePipelineRunConditionsNoParameterCase(p) ==
    LET hits == {i \in 1..Len(p.Conditions) :
                    /\ p.Conditions[i].Type = "Succeeded"
                    /\ p.Conditions[i].Status = "False"}
    IN  IF hits = {} THEN UnknownReasonText
        ELSE LET c == p.Conditions[CHOOSE i \in hits : \A j \in hits : i <= j]
                 reason == c.Reason
                 message == c.Message
             IN CASE reason = CouldntGetPipeline -> CouldntGetPipelineText
                  [] reason = PipelineValidationFailed ->
                         PipelineValidationFailedText \o message
                  [] reason = CouldntGetTask -> CouldntGetTaskText
                  [] reason = InvalidWorkspaceBindings -> InvalidWorkspaceBindingsText
                  [] reason = InvalidGraph -> InvalidGraphText
                  [] OTHER -> FailedWithReason \o reason \o <<"'", ":", " ">> \o message

analyzePipelineRunConditions(p) ==
    LET hits == {i \in 1..Len(p.Conditions) :
                    /\ p.Conditions[i].Type = "Succeeded"
                    /\ p.Conditions[i].Status = "False"}
    IN  IF hits = {} THEN UnknownReasonText
        ELSE LET c == p.Conditions[CHOOSE i \in hits : \A j \in hits : i <= j]
                 reason == c.Reason
                 message == c.Message
             IN CASE reason = CouldntGetPipeline -> CouldntGetPipelineText
                  [] reason = PipelineValidationFailed ->
                         PipelineValidationFailedText \o message
                  [] reason = CouldntGetTask -> CouldntGetTaskText
                  [] reason = InvalidWorkspaceBindings -> InvalidWorkspaceBindingsText
                  [] reason = ParameterMissing -> ParameterMissingText
                  [] reason = InvalidGraph -> InvalidGraphText
                  [] OTHER -> FailedWithReason \o reason \o <<"'", ":", " ">> \o message

\* InspectPipelineRun when the Get of the PipelineRun failed.
PipelineGetFailed(ns, name, err) ==
    [result |-> Nil,
     err |-> Errorf(GetPipelineRunFailed \o ns \o <<"/">> \o name \o <<":", " ">>, err)]

\* The record InspectPipelineRun builds from the fetched PipelineRun.
PipelineFetched(p) ==
    [PipelineRun |-> [Name |-> p.Name, Namespace |-> p.Namespace, UID |-> p.UID,
                      Labels |-> p.Labels, Annotations |-> p.Annotations],
     Status |-> buildPipelineRunStatus(p),
     FailedTaskRuns |-> <<>>,
     Analysis |-> <<>>]

\* A List failure that returns the record built so far with the error.
PipelineListFailedPartial(res, ns, name, err) ==
    [result |-> res,
     err |-> Errorf(ListTaskRunsFailed \o ns \o <<"/">> \o name \o <<":", " ">>, err)]

\* InspectPipelineRun when the List of the TaskRuns failed.
PipelineListFailed(res, ns, name, err) ==
    [result |-> Nil,
     err |-> Errorf(ListTaskRunsFailed \o ns \o <<"/">> \o name \o <<":", " ">>, err)]

\* The loop over taskRuns.Items that collects the failed TaskRuns.
RECURSIVE FailedTaskRunsOf(_)
FailedTaskRunsOf(items) ==
    IF items = <<>> THEN <<>>
    ELSE LET t == Head(items)
             c == getTaskRunConditionFields(t)
         IN (IF isTaskRunFailed(t)
             THEN <<[Name |-> t.Name, Namespace |-> t.Namespace,
                     Reason |-> c.Reason, Message |-> c.Message]>>
             ELSE <<>>) \o FailedTaskRunsOf(Tail(items))

\* An analysis that looks at the number of TaskRuns before the failed ones.
AnalysisOfByCount(p, items, failedTaskRuns) ==
    IF Len(items) = 0
    THEN NoTaskRunsCreated \o analyzePipelineRunConditions(p)
    ELSE NoFailuresReported \o Itoa(Len(items)) \o TaskRunsTotal

\* The analysis InspectPipelineRun writes: one of three scenarios.
AnalysisOf(p, items, failedTaskRuns) ==
    IF Len(failedTaskRuns) > 0
    THEN FoundFailed \o Itoa(Len(failedTaskRuns)) \o FoundFailedRest
            \o JoinComma([i \in 1..Len(failedTaskRuns) |-> failedTaskRuns[i].Name])
    ELSE IF Len(items) = 0
    THEN NoTaskRunsCreated \o analyzePipelineRunConditions(p)
    ELSE NoFailuresReported \o Itoa(Len(items)) \o TaskRunsTotal

\* InspectPipelineRun after the List returned its items.
PipelineListed(res, p, items) ==
    LET failedTaskRuns == FailedTaskRunsOf(items)
    IN [res EXCEPT !.FailedTaskRuns = failedTaskRuns,
                   !.Analysis = AnalysisOf(p, items, failedTaskRuns)]

\* ---------------------------------------------------------------- Init

\* What exists remotely when the program starts: pods with and without the
\* label, TaskRuns in an allowed and in a system namespace, no PipelineRun.
InitialRemote ==
    [k \in Kinds |->
        CASE k = "pod"         -> {Obj(ObjA, 1), Obj(ObjB, 1)}
          [] k = "taskrun"     -> {Obj(ObjA, 1), Obj(ObjK, 1)}
          [] k = "pipelinerun" -> {}]

\* Nothing is being inspected.
InspectorIdle ==
    /\ ipc = "idle"
    /\ taskRun = Nil
    /\ tri = Nil
    /\ ierr = Nil
    /\ logReqs = <<>>
    /\ logFetch = "none"
    /\ logErr = Nil

\* InspectPipelineRun is not being called.
PipelineInspectorIdle ==
    /\ ppc = "idle"
    /\ pipelineRun = Nil
    /\ taskRuns = <<>>
    /\ result = Nil
    /\ perr = Nil

\* extractErrorSnippet is not being called on its own.
SnippetIdle ==
    /\ spc = "idle"
    /\ snipLog = <<>>
    /\ snipN = 0
    /\ snipOut = <<>>

\* allowNamespace is not being called on its own.
NamespaceIdle ==
    /\ npc = "idle"
    /\ nsArg = <<>>
    /\ nsOut = TRUE

\* No request is being handled.
HandlerIdle ==
    /\ hpc = "idle"
    /\ req = Nil
    /\ llm = Nil
    /\ analysisText = <<>>
    /\ llmErrMsg = <<>>
    /\ llmCalls = <<>>
    /\ hlog = <<>>
    /\ resp = Nil

\* The serve command has not been run.
ListenerIdle ==
    /\ mainPc = "idle"
    /\ sigPc = "idle"
    /\ srvPc = "idle"
    /\ wg = 0
    /\ idleConnsClosed = FALSE
    /\ inShutdown = FALSE
    /\ conns = 0
    /\ signalled = FALSE
    /\ exited = FALSE

\* The stores are looked at through index only.
StoreIdle ==
    /\ stored = [k \in Kinds |-> {}]
    /\ indices = [k \in Kinds |-> {}]
    /\ locked = [k \in Kinds |-> [w |-> FALSE, r |-> 0]]
    /\ wop = [k \in Kinds |-> Nil]
    /\ whole = [k \in Kinds |-> {}]
    /\ writes = 0
    /\ callers = <<>>

\* Nothing but the part under study runs.
OthersIdle ==
    /\ NamespaceIdle
    /\ HandlerIdle
    /\ ListenerIdle
    /\ StoreIdle

\* A Manager that has been built and not started.
ManagerBuilt ==
    /\ remote = InitialRemote
    /\ backlog = [k \in Kinds |-> <<>>]
    /\ events = MaxEvents
    /\ faults = MaxFaults
    /\ cancelled = FALSE
    /\ phase = [k \in Kinds |-> "idle"]
    /\ cursor = [k \in Kinds |-> 0]
    /\ synced = [k \in Kinds |-> FALSE]
    /\ index = [k \in Kinds |-> {}]
    /\ startPc = "idle"

CacheInit ==
    /\ namespace \in {<<>>, NsDefault}
    /\ ManagerBuilt
    /\ OthersIdle
    /\ InspectorIdle
    /\ PipelineInspectorIdle
    /\ SnippetIdle

\* ------------------------------------------------- the remote store acts

\* A change of the remote store while the informers may run: a new
\* resourceVersion, whose event follows the ones the informer of that kind
\* has not synced yet (before its first list there is no such version, and
\* no watch will ever start from an earlier one).
RemoteChange(k, type, o) ==
    /\ events > 0
    /\ ~cancelled
    /\ events' = events - 1
    /\ remote' = [remote EXCEPT ![k] =
                    IF type = "Deleted" THEN Remove(@, o) ELSE Upsert(@, o)]
    /\ backlog' = [backlog EXCEPT ![k] =
                     IF synced[k] THEN Append(@, [type |-> type, obj |-> o]) ELSE @]
    /\ UNCHANGED << otherVars, inspVars, prVars, snipVars, namespace, faults, cancelled, phase, cursor, synced, index, startPc >>

RemoteCreate(k) ==
    \E u \in Universe :
        /\ \A o \in remote[k] : Ident(o) # u
        /\ RemoteChange(k, "Added", Obj(u, 1))

RemoteModify(k) ==
    \E o \in remote[k] : RemoteChange(k, "Modified", Obj(Ident(o), o.gen + 1))

RemoteDelete(k) ==
    \E o \in remote[k] : RemoteChange(k, "Deleted", o)

\* The caller cancels the context: every informer's Run returns.
Cancel ==
    /\ ~cancelled
    /\ cancelled' = TRUE
    /\ phase' = [k \in Kinds |-> IF phase[k] = "idle" THEN "idle" ELSE "stopped"]
    /\ UNCHANGED << otherVars, inspVars, prVars, snipVars, namespace, remote, backlog, events, faults, cursor, synced, index, startPc >>

\* --------------------------------------------------------- informer.Run

\* The list call answers: its objects replace the index, and the list's
\* resourceVersion becomes the last synced one (no event is newer than it).
ListOK(k) ==
    /\ phase[k] = "list"
    /\ index' = [index EXCEPT ![k] = Replace(@, ListFunc(k))]
    /\ synced' = [synced EXCEPT ![k] = TRUE]
    /\ backlog' = [backlog EXCEPT ![k] = <<>>]
    /\ cursor' = [cursor EXCEPT ![k] = 0]
    /\ phase' = [phase EXCEPT ![k] = "connect"]
    /\ UNCHANGED << otherVars, inspVars, prVars, snipVars, namespace, remote, events, faults, cancelled, startPc >>

\* A failure that ends the informer.
AfterFailureFatal == "stopped"

\* Where a failed list or watch leaves the informer: it lists again.
AfterFailure == "list"

\* The list call fails: retried after a backoff.
ListFail(k) ==
    /\ phase[k] = "list"
    /\ faults > 0
    /\ faults' = faults - 1
    /\ phase' = [phase EXCEPT ![k] = AfterFailure]
    /\ UNCHANGED << otherVars, inspVars, prVars, snipVars, namespace, remote, backlog, events, cancelled, cursor,
                    synced, index, startPc >>

\* A watch that starts from the remote store's newest resourceVersion.
WatchFromNow(k) == Len(backlog[k])

\* Where a watch starts in the backlog: WatchFunc hands the reflector's
\* ListOptions on, and their resourceVersion is the last synced one, so the
\* stream starts with the first event after it.
WatchFrom(k) == 0

WatchOpen(k) ==
    /\ phase[k] = "connect"
    /\ cursor' = [cursor EXCEPT ![k] = WatchFrom(k)]
    /\ phase' = [phase EXCEPT ![k] = "watch"]
    /\ UNCHANGED << otherVars, inspVars, prVars, snipVars, namespace, remote, backlog, events, faults, cancelled,
                    synced, index, startPc >>

\* The watch call fails, or the open watch ends with an error (such as an
\* expired resourceVersion): the informer starts over with a list.
WatchFail(k) ==
    /\ phase[k] \in {"connect", "watch"}
    /\ faults > 0
    /\ faults' = faults - 1
    /\ phase' = [phase EXCEPT ![k] = AfterFailure]
    /\ UNCHANGED << otherVars, inspVars, prVars, snipVars, namespace, remote, backlog, events, cancelled, cursor,
                    synced, index, startPc >>

\* The remote store closes the watch: it is opened again from the last
\* synced resourceVersion.
WatchClose(k) ==
    /\ phase[k] = "watch"
    /\ faults > 0
    /\ faults' = faults - 1
    /\ phase' = [phase EXCEPT ![k] = "connect"]
    /\ UNCHANGED << otherVars, inspVars, prVars, snipVars, namespace, remote, backlog, events, cancelled, cursor,
                    synced, index, startPc >>

\* The next event of the watch stream: if WatchFunc lets it through it is
\* applied to the index and its resourceVersion is the last synced one.
WatchEvent(k) ==
    /\ phase[k] = "watch"
    /\ cursor[k] < Len(backlog[k])
    /\ LET e == backlog[k][cursor[k] + 1]
       IN IF WatchFunc(k, e)
          THEN /\ index' = [index EXCEPT ![k] = ApplyEvent(@, e)]
               /\ backlog' = [backlog EXCEPT ![k] =
                                SubSeq(@, cursor[k] + 2, Len(@))]
               /\ cursor' = [cursor EXCEPT ![k] = 0]
          ELSE /\ cursor' = [cursor EXCEPT ![k] = @ + 1]
               /\ UNCHANGED << index, backlog >>
    /\ UNCHANGED << otherVars, inspVars, prVars, snipVars, namespace, remote, events, faults, cancelled, phase,
                    synced, startPc >>

\* -------------------------------------------------------- Manager.Start

\* go informer.Run(ctx.Done()), three times, then WaitForCacheSync begins.
StartRun ==
    /\ startPc = "idle"
    /\ startPc' = "waiting"
    /\ phase' = [k \in Kinds |-> IF cancelled THEN "stopped" ELSE "list"]
    /\ UNCHANGED << otherVars, inspVars, prVars, snipVars, namespace, remote, backlog, events, faults, cancelled, cursor,
                    synced, index >>

\* A barrier that is satisfied by the first informer to sync.
WaitForAnyCacheSync ==
    \E k \in Kinds : HasSynced(k)

\* WaitForCacheSync's answer while the context is not done: every HasSynced
\* is true.
WaitForCacheSync ==
    \A k \in Kinds : HasSynced(k)

\* WaitForCacheSync answered true.
StartReturnsNil ==
    /\ startPc = "waiting"
    /\ WaitForCacheSync
    /\ startPc' = "ok"
    /\ UNCHANGED << otherVars, inspVars, prVars, snipVars, namespace, remote, backlog, events, faults, cancelled, phase,
                    cursor, synced, index >>

\* WaitForCacheSync answered false: the context was done.
StartReturnsCanceled ==
    /\ startPc = "waiting"
    /\ cancelled
    /\ startPc' = "canceled"
    /\ UNCHANGED << otherVars, inspVars, prVars, snipVars, namespace, remote, backlog, events, faults, cancelled, phase,
                    cursor, synced, index >>

CacheNext ==
    \/ \E k \in Kinds : RemoteCreate(k) 
    \/ \E k \in Kinds : RemoteModify(k)
    \/ \E k \in Kinds : RemoteDelete(k)
    \/ Cancel
    \/ StartRun
    \/ StartReturnsNil
    \/ StartReturnsCanceled
    \/ \E k \in Kinds : ListOK(k)
    \/ \E k \in Kinds : ListFail(k)
    \/ \E k \in Kinds : WatchOpen(k)
    \/ \E k \in Kinds : WatchFail(k)
    \/ \E k \in Kinds : WatchClose(k)
    \/ \E k \in Kinds : WatchEvent(k)

CacheSpec == CacheInit /\ [][CacheNext]_vars

\* ------------------------------------------- InspectTaskRun, step by step

SeqsUpTo(S, n) == UNION {[1..m -> S] : m \in 0..n}

Cond(type, status, reason, message) ==
    [Type |-> type, Status |-> status, Reason |-> reason, Message |-> message]

CondChoices ==
    { Cond("Succeeded", "True", "Succeeded", <<"o","k">>),
      Cond("Succeeded", "False", "TaskRunImagePullFailed", <<"p","u","l","l"," ","f","a","i","l","e","d">>),
      Cond("Succeeded", "Unknown", "Running", <<"r","u","n","n","i","n","g">>),
      Cond("Ready", "True", "Ready", <<>>) }

Step(name, terminated, container) ==
    [Name |-> name, Terminated |-> terminated, Container |-> container]

Exit(code) == [ExitCode |-> code]

StepChoices ==
    { Step(<<"b">>, Nil, <<>>),
      Step(<<"b">>, Exit(0), <<>>),
      Step(<<"b">>, Exit(1), <<>>),
      Step(<<"a">>, Exit(0), <<"c","x">>),
      Step(<<"a">>, Exit(2), <<"c","x">>),
      Step(<<"a">>, Exit(1), <<>>) }

PodNames == {<<>>, <<"p","1">>}

TaskRunInputs ==
    [Conditions : SeqsUpTo(CondChoices, MaxConds),
     Steps : SeqsUpTo(StepChoices, MaxSteps),
     PodName : PodNames]

ApiError(reason, code, text) ==
    [api |-> TRUE, reason |-> reason, code |-> code, text |-> text]

\* The errors the Get of a TaskRun may return: API statuses with the usual
\* reasons, a 404 without a reason, and an error that is no API status.
GetErrors ==
    { ApiError("NotFound", 404, <<"n","o","t"," ","f","o","u","n","d">>),
      ApiError("Forbidden", 403, <<"f","o","r","b","i","d","d","e","n">>),
      ApiError("Unauthorized", 401, <<"u","n","a","u","t","h","o","r","i","z","e","d">>),
      ApiError("InternalError", 500, <<"i","n","t","e","r","n","a","l">>),
      ApiError("", 404, <<"4","0","4">>),
      [api |-> FALSE, reason |-> "", code |-> 0, text |-> <<"c","o","n","t","e","x","t"," ","c","a","n","c","e","l","e","d">>] }

\* What fetchContainerLogs may return: the log text, or an error (the pod is
\* gone, the container is not in the pod, the request failed).
LogTexts ==
    { <<>>,
      <<"o","k","\n","E","r","r","o","r",":"," ","b","o","o","m","\n","d","o","n","e","\n">>,
      <<"\n"," ","\n">>,
      <<"b","u","i","l","d","i","n","g","\n","a","l","l"," ","g","o","o","d">> }

\* The error of a request whose context was cancelled while it was under way.
ContextCanceled ==
    [api |-> FALSE, reason |-> "", code |-> 0,
     text |-> <<"c","o","n","t","e","x","t"," ","c","a","n","c","e","l","e","d">>]

LogErrors ==
    { ContextCanceled,
      ApiError("NotFound", 404, <<"p","o","d"," ","g","o","n","e">>),
      ApiError("BadRequest", 400, <<"n","o"," ","c","o","n","t","a","i","n","e","r">>),
      [api |-> FALSE, reason |-> "", code |-> 0, text |-> <<"E","O","F">>] }

LogOutcomes ==
    {[raw |-> t, err |-> Nil] : t \in LogTexts}
        \cup {[raw |-> <<>>, err |-> e] : e \in LogErrors}

InspName == <<"d","e","m","o">>

InspNamespace == NsDefault

InspectInit ==
    /\ namespace = <<>>
    /\ ManagerBuilt
    /\ OthersIdle
    /\ ipc = "start"
    /\ taskRun \in TaskRunInputs
    /\ tri = Nil
    /\ ierr = Nil
    /\ logReqs = <<>>
    /\ logFetch = "none"
    /\ logErr = Nil
    /\ PipelineInspectorIdle
    /\ SnippetIdle

\* The Get of the TaskRun fails: InspectTaskRun returns.
InspectGetFails ==
    /\ ipc = "start"
    /\ \E e \in GetErrors :
          LET r == InspectGetFailed(InspName, InspNamespace, e)
          IN  tri' = r.tri /\ ierr' = r.err
    /\ ipc' = "done"
    /\ UNCHANGED << otherVars, cacheVars, prVars, snipVars, taskRun, logReqs, logFetch, logErr >>

\* The Get answers and InspectTaskRun runs up to its return, or up to the
\* request for the failed step's container log.
InspectGetReturns ==
    /\ ipc = "start"
    /\ LET info == InspectFetched(InspName, InspNamespace, taskRun)
       IN /\ tri' = info
          /\ IF WantsLogs(taskRun, info)
             THEN /\ ipc' = "logs"
                  /\ logReqs' = Append(logReqs,
                        [Namespace |-> InspNamespace, PodName |-> taskRun.PodName,
                         Container |-> resolveFailedContainerName(taskRun, info.FailedStep.Name),
                         TailLines |-> TailLines])
             ELSE /\ ipc' = "done"
                  /\ UNCHANGED logReqs
    /\ ierr' = Nil
    /\ UNCHANGED << otherVars, cacheVars, prVars, snipVars, taskRun, logFetch, logErr >>

\* fetchContainerLogs returns and InspectTaskRun returns.
InspectLogsReturn ==
    /\ ipc = "logs"
    /\ \E out \in LogOutcomes :
          LET r == AfterLogs(tri, out)
          IN  /\ tri' = r.tri
              /\ ierr' = r.err
              /\ logFetch' = IF out.err = Nil THEN "ok" ELSE "failed"
              /\ logErr' = out.err
    /\ ipc' = "done"
    /\ UNCHANGED << otherVars, cacheVars, prVars, snipVars, taskRun, logReqs >>

InspectNext ==
    \/ InspectGetFails
    \/ InspectGetReturns
    \/ InspectLogsReturn

InspectSpec == InspectInit /\ [][InspectNext]_vars

\* --------------------------------------- InspectPipelineRun, step by step

PRCond(type, status, reason, message) ==
    [Type |-> type, Status |-> status, Reason |-> reason, Message |-> message,
     LastTransitionTime |-> 0]

SucceededFalse(reason, message) == PRCond("Succeeded", "False", reason, message)

\* The condition lists of the PipelineRun fetched: none, one Succeeded
\* condition of each status, each reason analyzePipelineRunConditions knows
\* and one it does not, with and without a message, a condition of another
\* type, alone and before a Succeeded one, and two Succeeded conditions.
PipelineRunConditions ==
    { <<>>,
      <<PRCond("Succeeded", "True", <<"S","u","c","c","e","e","d","e","d">>, <<"o","k">>)>>,
      <<PRCond("Succeeded", "Unknown", <<"R","u","n","n","i","n","g">>, <<>>)>>,
      <<SucceededFalse(CouldntGetPipeline, <<"b","a","d">>)>>,
      <<SucceededFalse(PipelineValidationFailed, <<"b","a","d">>)>>,
      <<SucceededFalse(PipelineValidationFailed, <<>>)>>,
      <<SucceededFalse(CouldntGetTask, <<"b","a","d">>)>>,
      <<SucceededFalse(InvalidWorkspaceBindings, <<"b","a","d">>)>>,
      <<SucceededFalse(ParameterMissing, <<"b","a","d">>)>>,
      <<SucceededFalse(InvalidGraph, <<"b","a","d">>)>>,
      <<SucceededFalse(<<"P","i","p","e","l","i","n","e","R","u","n","T","i","m","e","o","u","t">>, <<"b","a","d">>)>>,
      <<PRCond("Ready", "True", <<>>, <<>>)>>,
      <<PRCond("Ready", "True", <<>>, <<>>), SucceededFalse(ParameterMissing, <<>>)>>,
      <<PRCond("Succeeded", "True", <<"S","u","c","c","e","e","d","e","d">>, <<>>), SucceededFalse(InvalidGraph, <<>>)>> }

\* A *metav1.Time that is set, in milliseconds.
At(ms) == [Time |-> ms]

PipelineRunInputs ==
    [Name : {InspName}, Namespace : {InspNamespace}, UID : {<<"u","1">>},
     Labels : {{}}, Annotations : {{}},
     Conditions : PipelineRunConditions,
     StartTime : {Nil, At(1000)},
     CompletionTime : {Nil, At(62500)}]

\* A TaskRun of a remote store, with the value of its tekton.dev/pipelineRun
\* label.
Member(name, pipeline, conditions) ==
    [Name |-> name, Namespace |-> InspNamespace, PipelineRun |-> pipeline,
     Conditions |-> conditions]

CondFailed == Cond("Succeeded", "False", "Failed", <<"b","o","o","m">>)

CondPullFailed ==
    Cond("Succeeded", "False", "TaskRunImagePullFailed",
         <<"p","u","l","l"," ","f","a","i","l","e","d">>)

CondRunning == Cond("Succeeded", "Unknown", "Running", <<>>)

\* The TaskRuns that may exist remotely: of the inspected PipelineRun with
\* each outcome, with a condition of another type first, with two Succeeded
\* conditions, and a failed one of another PipelineRun.
MemberChoices ==
    { Member(<<"t","1">>, InspName, <<CondFailed>>),
      Member(<<"t","2">>, InspName, <<Cond("Succeeded", "True", "Succeeded", <<>>)>>),
      Member(<<"t","3">>, InspName, <<CondRunning>>),
      Member(<<"t","4">>, InspName, <<>>),
      Member(<<"t","5">>, InspName, <<Cond("Ready", "True", "Ready", <<>>), CondPullFailed>>),
      Member(<<"t","6">>, InspName, <<CondRunning, CondFailed>>),
      Member(<<"t","7">>, <<"o","t","h","e","r">>, <<CondFailed>>) }

RemoteTaskRuns == SeqsUpTo(MemberChoices, MaxMembers)

\* TaskRuns(namespace).List with LabelSelector tekton.dev/pipelineRun=name.
ListByPipelineRun(pool, ns, name) ==
    SelectSeq(pool, LAMBDA t : t.Namespace = ns /\ t.PipelineRun = name)

PipelineInit ==
    /\ namespace = <<>>
    /\ ManagerBuilt
    /\ OthersIdle
    /\ InspectorIdle
    /\ SnippetIdle
    /\ ppc = "start"
    /\ pipelineRun \in PipelineRunInputs
    /\ taskRuns = <<>>
    /\ result = Nil
    /\ perr = Nil

\* The Get of the PipelineRun fails: InspectPipelineRun returns.
PipelineGetFails ==
    /\ ppc = "start"
    /\ \E e \in GetErrors :
          LET r == PipelineGetFailed(InspNamespace, InspName, e)
          IN  result' = r.result /\ perr' = r.err
    /\ ppc' = "done"
    /\ UNCHANGED << otherVars, cacheVars, inspVars, snipVars, pipelineRun, taskRuns >>

\* The Get answers: the record is built and the TaskRuns are asked for.
PipelineGetReturns ==
    /\ ppc = "start"
    /\ result' = PipelineFetched(pipelineRun)
    /\ ppc' = "list"
    /\ UNCHANGED << otherVars, cacheVars, inspVars, snipVars, pipelineRun, taskRuns, perr >>

\* The List of the TaskRuns fails: InspectPipelineRun returns.
PipelineListFails ==
    /\ ppc = "list"
    /\ \E e \in GetErrors :
          LET r == PipelineListFailed(result, InspNamespace, InspName, e)
          IN  result' = r.result /\ perr' = r.err
    /\ ppc' = "done"
    /\ UNCHANGED << otherVars, cacheVars, inspVars, snipVars, pipelineRun, taskRuns >>

\* The List answers with the TaskRuns that carry the label, and
\* InspectPipelineRun returns.
PipelineListReturns ==
    /\ ppc = "list"
    /\ \E pool \in RemoteTaskRuns :
          LET items == ListByPipelineRun(pool, InspNamespace, InspName)
          IN  /\ taskRuns' = items
              /\ result' = PipelineListed(result, pipelineRun, items)
    /\ ppc' = "done"
    /\ UNCHANGED << otherVars, cacheVars, inspVars, snipVars, pipelineRun, perr >>

PipelineNext ==
    \/ PipelineGetFails
    \/ PipelineGetReturns
    \/ PipelineListFails
    \/ PipelineListReturns

PipelineSpec == PipelineInit /\ [][PipelineNext]_vars

\* ------------------------------------------- extractErrorSnippet, applied

\* The lines a log is made of: empty, blank, without a keyword, and with a
\* keyword in upper and in lower case.
LineChoices ==
    { <<>>,
      <<" ">>,
      <<"o","k">>,
      <<"F","A","I","L",":"," ","x">>,
      <<"e","x","i","t"," ","c","o","d","e"," ","1">> }

LogInputs == {JoinLines(ls) : ls \in SeqsUpTo(LineChoices, MaxLines)}

SnippetInit ==
    /\ namespace = <<>>
    /\ ManagerBuilt
    /\ OthersIdle
    /\ InspectorIdle
    /\ PipelineInspectorIdle
    /\ spc = "start"
    /\ snipLog \in LogInputs
    /\ snipN \in 0..MaxN
    /\ snipOut = <<>>

\* extractErrorSnippet(snipLog, snipN) returns.
SnippetCall ==
    /\ spc = "start"
    /\ snipOut' = extractErrorSnippet(snipLog, snipN)
    /\ spc' = "done"
    /\ UNCHANGED << otherVars, cacheVars, inspVars, prVars, snipLog, snipN >>

SnippetNext == SnippetCall

SnippetSpec == SnippetInit /\ [][SnippetNext]_vars

\* ------------------------------------------------- allowNamespace, called

\* The names the argument is built from: every alternative of the pattern,
\* the words of the pattern without their hyphen, and names that hold such
\* a word in another place.
NameBases ==
    IgnoreExact \cup IgnorePrefixes \cup
    { NsDefault,
      <<"o","p","e","n","s","h","i","f","t">>,
      <<"k","u","b","e">>,
      <<"m","y","-","k","u","b","e","-","s","y","s","t","e","m">>,
      <<"t","o","-","o","p","e","n","s","h","i","f","t","-","x">>,
      <<"O","p","e","n","s","h","i","f","t","-","x">> }

NameTail == {"-", "x", "\n"}

\* Every prefix of a base (the empty name among them), followed by at most
\* MaxTail more characters.
NamespaceNames ==
    UNION { { SubSeq(b, 1, i) \o t :
                i \in 0..Len(b), t \in SeqsUpTo(NameTail, MaxTail) } :
            b \in NameBases }

NamespaceInit ==
    /\ namespace = <<>>
    /\ ManagerBuilt
    /\ InspectorIdle
    /\ PipelineInspectorIdle
    /\ SnippetIdle
    /\ HandlerIdle
    /\ ListenerIdle
    /\ StoreIdle
    /\ npc = "start"
    /\ nsArg \in NamespaceNames
    /\ nsOut = TRUE

\* allowNamespace(nsArg) returns.
AllowNamespaceCall ==
    /\ npc = "start"
    /\ nsOut' = allowNamespace(nsArg)
    /\ npc' = "done"
    /\ UNCHANGED << cacheVars, inspVars, prVars, snipVars, httpVars, lsnVars, storeVars, nsArg >>

NamespaceNext == AllowNamespaceCall

NamespaceSpec == NamespaceInit /\ [][NamespaceNext]_vars

\* ------------------------------------------------- the HTTP handlers

TaskRunPath == "/taskrun/explainFailure"

PipelineRunPath == "/pipelinerun/explainFailure"

MissingTaskRun ==
    <<"m","i","s","s","i","n","g"," ","t","a","s","k","r","u","n"," ","n","a",
      "m","e"," ","o","r"," ","n","a","m","e","s","p","a","c","e">>

MissingPipelineRun ==
    <<"m","i","s","s","i","n","g"," ","p","i","p","e","l","i","n","e","r","u",
      "n"," ","n","a","m","e"," ","o","r"," ","n","a","m","e","s","p","a","c",
      "e">>

FailedToCreateInspector ==
    <<"f","a","i","l","e","d"," ","t","o"," ","c","r","e","a","t","e"," ","i",
      "n","s","p","e","c","t","o","r",":"," ">>

FailedToInspectTaskRun ==
    <<"f","a","i","l","e","d"," ","t","o"," ","i","n","s","p","e","c","t"," ",
      "t","a","s","k","r","u","n",":"," ">>

FailedToInspectPipelineRun ==
    <<"f","a","i","l","e","d"," ","t","o"," ","i","n","s","p","e","c","t"," ",
      "p","i","p","e","l","i","n","e","r","u","n",":"," ">>

LLMAnalyzeFailed ==
    <<"L","L","M"," ","a","n","a","l","y","z","e"," ","f","a","i","l","e","d",
      ":"," ">>

LLMAnalyzeFailedForPipelineRun ==
    <<"L","L","M"," ","a","n","a","l","y","z","e"," ","f","a","i","l","e","d",
      " ","f","o","r"," ","P","i","p","e","l","i","n","e","R","u","n",":",
      " ">>

\* http.Error(w, text, code): the status and the text with a newline.
HttpError(text, code) == [status |-> code, body |-> text \o <<"\n">>]

\* json.NewEncoder(w).Encode(v) as the first write of the response: the
\* status is 200.
HttpJSON(v) == [status |-> 200, body |-> v]

\* An error that is no API status.
PlainError(text) == [api |-> FALSE, reason |-> "", code |-> 0, text |-> text]

\* InspectTaskRun as one call: get is the error of the Get (Nil = the
\* TaskRun t was returned) and out what fetchContainerLogs returns if it is
\* called.
InspectTaskRun(ns, name, t, get, out) ==
    IF get # Nil
    THEN LET r == InspectGetFailed(name, ns, get)
         IN  [tri |-> r.tri, err |-> r.err, reqs |-> <<>>, out |-> Nil]
    ELSE LET info == InspectFetched(name, ns, t)
         IN  IF WantsLogs(t, info)
             THEN LET r == AfterLogs(info, out)
                  IN  [tri |-> r.tri, err |-> r.err,
                       reqs |-> <<[Namespace |-> ns, PodName |-> t.PodName,
                                   Container |-> resolveFailedContainerName(t, info.FailedStep.Name),
                                   TailLines |-> TailLines]>>,
                       out |-> out]
             ELSE [tri |-> info, err |-> Nil, reqs |-> <<>>, out |-> Nil]

\* InspectPipelineRun as one call: get and list are the errors of the Get
\* and of the List (Nil = none), pool the TaskRuns of the remote store.
InspectPipelineRun(ns, name, p, get, list, pool) ==
    IF get # Nil
    THEN PipelineGetFailed(ns, name, get) @@ [items |-> <<>>]
    ELSE IF list # Nil
    THEN PipelineListFailed(PipelineFetched(p), ns, name, list) @@ [items |-> <<>>]
    ELSE LET found == ListByPipelineRun(pool, ns, name)
         IN  [result |-> PipelineListed(PipelineFetched(p), p, found),
              err |-> Nil, items |-> found]

\* The values BuildTaskRunPrompt writes into the prompt, line by line; the
\* fixed wording around them is left out.
BuildTaskRunPrompt(info) ==
    <<[TaskRun |-> info.TaskRun], [Namespace |-> info.Namespace],
      [Succeeded |-> info.Succeeded]>>
    \o (IF info.FailedStep.Name # <<>> \/ info.FailedStep.ExitCode # 0
        THEN <<[FailedStep |-> info.FailedStep]>> ELSE <<>>)
    \o (IF info.Error # ZeroErrorInfo
        THEN <<[Type |-> info.Error.Type, Status |-> info.Error.Status,
                Reason |-> info.Error.Reason]>>
        ELSE <<>>)

\* The sentence of the PipelineRun prompt for a record without failed
\* TaskRuns.
NoTaskRunsWereCreated == "No TaskRuns were created"

\* The values BuildPipelineRunPrompt writes into the prompt.
BuildPipelineRunPrompt(res) ==
    <<[PipelineRun |-> res.PipelineRun.Namespace \o <<"/">> \o res.PipelineRun.Name],
      [Status |-> res.Status.Phase]>>
    \o (IF Len(res.Status.Conditions) > 0
        THEN <<[Conditions |-> res.Status.Conditions]>> ELSE <<>>)
    \o (IF Len(res.FailedTaskRuns) > 0
        THEN <<[FailedTaskRuns |-> res.FailedTaskRuns]>>
        ELSE <<[Text |-> NoTaskRunsWereCreated]>>)

\* The JSON object of a TaskRunDebugInfo (omitempty does not drop a struct).
EncodeTaskRunDebugInfo(info) ==
    [taskrun |-> info.TaskRun, namespace |-> info.Namespace,
     succeeded |-> info.Succeeded,
     failed_step |-> [name |-> info.FailedStep.Name,
                      exit_code |-> info.FailedStep.ExitCode],
     error |-> [type |-> info.Error.Type, status |-> info.Error.Status,
                reason |-> info.Error.Reason, message |-> info.Error.Message,
                log_snippet |-> info.Error.LogSnippet]]

\* An encoding that writes the debug record only.
EncodeResponseDebugOnly(debug, analysis, llmError) ==
    [debug |-> EncodeTaskRunDebugInfo(debug)]

\* The JSON object of the handler's response struct: analysis and
\* llm_error are left out when empty.
EncodeResponse(debug, analysis, llmError) ==
    [debug |-> EncodeTaskRunDebugInfo(debug)]
        @@ (IF analysis # <<>> THEN [analysis |-> analysis] ELSE <<>>)
        @@ (IF llmError # <<>> THEN [llm_error |-> llmError] ELSE <<>>)

\* The JSON object of a PipelineRunDebugInfo.
EncodePipelineRunDebugInfo(res) ==
    [pipelineRun |-> res.PipelineRun, status |-> res.Status,
     failedTaskRuns |-> res.FailedTaskRuns, analysis |-> res.Analysis]

\* -------------------------------------------- one request, step by step

Param == {<<>>, InspName}

\* A request to one of the two paths; a query parameter that is not given
\* reads as "".
Requests ==
    [path : {TaskRunPath, PipelineRunPath},
     namespace : {<<>>, InspNamespace}, taskrun : Param, name : Param]

\* An LLM built by NewOpenAILLM.
OpenAILLM == [model |-> "gpt-4o-mini"]

MockAnalysis == <<"m","o","c","k","-","a","n","a","l","y","s","i","s">>

\* What Analyze returns: the completion's text (which may be empty), or an
\* error: no choice in the completion, the 45 s timeout, a failed request.
LLMOutcomes ==
    { [out |-> MockAnalysis, err |-> Nil],
      [out |-> <<>>, err |-> Nil],
      [out |-> <<>>, err |-> PlainError(<<"e","m","p","t","y"," ","c","o","m","p","l","e","t","i","o","n",
              " ","c","h","o","i","c","e","s">>)],
      [out |-> <<>>, err |-> PlainError(<<"c","o","n","t","e","x","t"," ","d","e","a","d","l","i","n","e",
              " ","e","x","c","e","e","d","e","d">>)],
      [out |-> <<>>, err |-> ApiError("Unauthorized", 401, <<"4","0","1">>)] }

\* The errors NewInspector may return: no configuration was found.
InspectorErrors ==
    { PlainError(<<"n","o"," ","k","u","b","e"," ","c","o","n","f","i","g">>) }

\* The TaskRun the remote store holds for a /taskrun request: failed with a
\* step that exited 1, failed in its second step without a pod, succeeded,
\* running, and without any status.
HandlerTaskRuns ==
    { [Conditions |-> <<Cond("Succeeded", "False", "TaskRunImagePullFailed", <<"p","u","l","l"," ","f","a","i","l","e","d">>)>>,
       Steps |-> <<Step(<<"b">>, Exit(1), <<>>)>>, PodName |-> <<"p","1">>],
      [Conditions |-> <<Cond("Succeeded", "False", "TaskRunImagePullFailed", <<"p","u","l","l"," ","f","a","i","l","e","d">>)>>,
       Steps |-> <<Step(<<"a">>, Exit(0), <<"c","x">>), Step(<<"b">>, Exit(1), <<>>)>>,
       PodName |-> <<>>],
      [Conditions |-> <<Cond("Succeeded", "True", "Succeeded", <<"o","k">>)>>,
       Steps |-> <<Step(<<"b">>, Exit(0), <<>>)>>, PodName |-> <<"p","1">>],
      [Conditions |-> <<Cond("Succeeded", "Unknown", "Running", <<"r","u","n","n","i","n","g">>)>>,
       Steps |-> <<Step(<<"b">>, Nil, <<>>)>>, PodName |-> <<"p","1">>],
      [Conditions |-> <<>>, Steps |-> <<>>, PodName |-> <<>>] }

\* The PipelineRun the remote store holds for a /pipelinerun request.
HandlerPipelineRuns ==
    { p \in PipelineRunInputs :
        /\ p.StartTime = Nil
        /\ p.CompletionTime = Nil
        /\ p.Conditions \in
              { <<>>,
                <<PRCond("Succeeded", "Unknown", <<"R","u","n","n","i","n","g">>, <<>>)>>,
                <<SucceededFalse(ParameterMissing, <<"b","a","d">>)>>,
                <<SucceededFalse(<<"P","i","p","e","l","i","n","e","R","u","n","T","i","m","e","o","u","t">>, <<"b","a","d">>)>> } }

HandlerInit ==
    /\ namespace = <<>>
    /\ ManagerBuilt
    /\ SnippetIdle
    /\ NamespaceIdle
    /\ ListenerIdle
    /\ StoreIdle
    /\ hpc = "validate"
    /\ req \in Requests
    /\ llm \in {Nil, OpenAILLM}
    /\ analysisText = <<>>
    /\ llmErrMsg = <<>>
    /\ llmCalls = <<>>
    /\ hlog = <<>>
    /\ resp = Nil
    /\ ipc = "idle"
    /\ taskRun \in (IF req.path = TaskRunPath THEN HandlerTaskRuns ELSE {Nil})
    /\ tri = Nil
    /\ ierr = Nil
    /\ logReqs = <<>>
    /\ logFetch = "none"
    /\ logErr = Nil
    /\ ppc = "idle"
    /\ pipelineRun \in (IF req.path = PipelineRunPath THEN HandlerPipelineRuns ELSE {Nil})
    /\ taskRuns = <<>>
    /\ result = Nil
    /\ perr = Nil

HandlerFrame == UNCHANGED << cacheVars, snipVars, nsVars, lsnVars, storeVars, req, llm >>

\* handleExplainFailure reads its two parameters.
ValidateTaskRunRequest ==
    /\ hpc = "validate"
    /\ req.path = TaskRunPath
    /\ IF req.taskrun = <<>> \/ req.namespace = <<>>
       THEN /\ resp' = HttpError(MissingTaskRun, 400)
            /\ hpc' = "done"
       ELSE /\ hpc' = "inspector"
            /\ UNCHANGED resp
    /\ HandlerFrame
    /\ UNCHANGED << inspVars, prVars, analysisText, llmErrMsg, llmCalls, hlog >>

\* handlePipelineRunExplainFailure reads its two parameters.
ValidatePipelineRunRequest ==
    /\ hpc = "validate"
    /\ req.path = PipelineRunPath
    /\ IF req.name = <<>> \/ req.namespace = <<>>
       THEN /\ resp' = HttpError(MissingPipelineRun, 400)
            /\ hpc' = "done"
       ELSE /\ hpc' = "inspector"
            /\ UNCHANGED resp
    /\ HandlerFrame
    /\ UNCHANGED << inspVars, prVars, analysisText, llmErrMsg, llmCalls, hlog >>

\* inspector.NewInspector returns an error.
NewInspectorFails ==
    /\ hpc = "inspector"
    /\ \E e \in InspectorErrors :
          resp' = HttpError(FailedToCreateInspector \o e.text, 500)
    /\ hpc' = "done"
    /\ HandlerFrame
    /\ UNCHANGED << inspVars, prVars, analysisText, llmErrMsg, llmCalls, hlog >>

\* inspector.NewInspector returns an Inspector.
NewInspectorReturns ==
    /\ hpc = "inspector"
    /\ hpc' = "inspect"
    /\ HandlerFrame
    /\ UNCHANGED << inspVars, prVars, analysisText, llmErrMsg, llmCalls, hlog, resp >>

\* A handler that goes on whatever InspectTaskRun returned.
InspectTaskRunNeverFailed(err) == FALSE

\* handleExplainFailure's test of the error InspectTaskRun returned.
InspectTaskRunFailed(err) == err # Nil

\* ins.InspectTaskRun returns: on an error the handler answers 500.
HandleInspectTaskRun ==
    /\ hpc = "inspect"
    /\ req.path = TaskRunPath
    /\ \E get \in {Nil} \cup GetErrors, out \in LogOutcomes :
          LET r == InspectTaskRun(req.namespace, req.taskrun, taskRun, get, out)
          IN  /\ tri' = r.tri
              /\ ierr' = r.err
              /\ logReqs' = r.reqs
              /\ logFetch' = IF r.out = Nil THEN "none"
                             ELSE IF r.out.err = Nil THEN "ok" ELSE "failed"
              /\ logErr' = IF r.out = Nil THEN Nil ELSE r.out.err
              /\ IF InspectTaskRunFailed(r.err)
                 THEN /\ resp' = HttpError(FailedToInspectTaskRun \o r.err.text, 500)
                      /\ hpc' = "done"
                 ELSE /\ hpc' = "llm"
                      /\ UNCHANGED resp
    /\ ipc' = "done"
    /\ HandlerFrame
    /\ UNCHANGED << prVars, taskRun, analysisText, llmErrMsg, llmCalls, hlog >>

\* ins.InspectPipelineRun returns: on an error the handler answers 500.
HandleInspectPipelineRun ==
    /\ hpc = "inspect"
    /\ req.path = PipelineRunPath
    /\ \E get \in {Nil} \cup GetErrors, list \in {Nil} \cup GetErrors, pool \in RemoteTaskRuns :
          LET r == InspectPipelineRun(req.namespace, req.name, pipelineRun, get, list, pool)
          IN  /\ result' = r.result
              /\ perr' = r.err
              /\ taskRuns' = r.items
              /\ IF r.err # Nil
                 THEN /\ resp' = HttpError(FailedToInspectPipelineRun \o r.err.text, 500)
                      /\ hpc' = "done"
                 ELSE /\ hpc' = "llm"
                      /\ UNCHANGED resp
    /\ ppc' = "done"
    /\ HandlerFrame
    /\ UNCHANGED << inspVars, pipelineRun, analysisText, llmErrMsg, llmCalls, hlog >>

\* Whether handleExplainFailure asks the LLM.
AsksLLMAboutTaskRun == llm # Nil

\* Whether handlePipelineRunExplainFailure asks the LLM.
AsksLLMAboutPipelineRun == llm # Nil /\ Len(result.FailedTaskRuns) = 0

\* handleExplainFailure with h.llm set: Analyze is called and returns.
AnalyzeTaskRun ==
    /\ hpc = "llm"
    /\ req.path = TaskRunPath
    /\ AsksLLMAboutTaskRun
    /\ \E o \in LLMOutcomes :
          /\ llmCalls' = Append(llmCalls, [prompt |-> BuildTaskRunPrompt(tri), ret |-> o])
          /\ IF o.err = Nil
             THEN /\ analysisText' = o.out
                  /\ UNCHANGED << llmErrMsg, hlog >>
             ELSE /\ hlog' = Append(hlog, LLMAnalyzeFailed \o o.err.text)
                  /\ llmErrMsg' = o.err.text
                  /\ UNCHANGED analysisText
    /\ hpc' = "respond"
    /\ HandlerFrame
    /\ UNCHANGED << inspVars, prVars, resp >>

\* handlePipelineRunExplainFailure asks the LLM: Analyze is called and
\* returns, and its text replaces the inspector's analysis.
AnalyzePipelineRun ==
    /\ hpc = "llm"
    /\ req.path = PipelineRunPath
    /\ AsksLLMAboutPipelineRun
    /\ \E o \in LLMOutcomes :
          /\ llmCalls' = Append(llmCalls, [prompt |-> BuildPipelineRunPrompt(result), ret |-> o])
          /\ IF o.err = Nil
             THEN /\ result' = [result EXCEPT !.Analysis = o.out]
                  /\ UNCHANGED hlog
             ELSE /\ hlog' = Append(hlog, LLMAnalyzeFailedForPipelineRun \o o.err.text)
                  /\ UNCHANGED result
    /\ hpc' = "respond"
    /\ HandlerFrame
    /\ UNCHANGED << inspVars, ppc, pipelineRun, taskRuns, perr, analysisText, llmErrMsg, resp >>

\* The handler does not ask the LLM.
SkipAnalysis ==
    /\ hpc = "llm"
    /\ IF req.path = TaskRunPath THEN ~AsksLLMAboutTaskRun ELSE ~AsksLLMAboutPipelineRun
    /\ hpc' = "respond"
    /\ HandlerFrame
    /\ UNCHANGED << inspVars, prVars, analysisText, llmErrMsg, llmCalls, hlog, resp >>

\* A response that reports the LLM's failure as the request's.
TaskRunResponseStrict(debug, analysis, llmError) ==
    IF llmError # <<>>
    THEN HttpError(llmError, 500)
    ELSE HttpJSON(EncodeResponse(debug, analysis, llmError))

\* What handleExplainFailure writes after the analysis step.
TaskRunResponse(debug, analysis, llmError) ==
    HttpJSON(EncodeResponse(debug, analysis, llmError))

\* handleExplainFailure encodes its response.
RespondTaskRun ==
    /\ hpc = "respond"
    /\ req.path = TaskRunPath
    /\ resp' = TaskRunResponse(tri, analysisText, llmErrMsg)
    /\ hpc' = "done"
    /\ HandlerFrame
    /\ UNCHANGED << inspVars, prVars, analysisText, llmErrMsg, llmCalls, hlog >>

\* handlePipelineRunExplainFailure encodes the record.
RespondPipelineRun ==
    /\ hpc = "respond"
    /\ req.path = PipelineRunPath
    /\ resp' = HttpJSON(EncodePipelineRunDebugInfo(result))
    /\ hpc' = "done"
    /\ HandlerFrame
    /\ UNCHANGED << inspVars, prVars, analysisText, llmErrMsg, llmCalls, hlog >>

HandlerNext ==
    \/ ValidateTaskRunRequest
    \/ ValidatePipelineRunRequest
    \/ NewInspectorFails
    \/ NewInspectorReturns
    \/ HandleInspectTaskRun
    \/ HandleInspectPipelineRun
    \/ AnalyzeTaskRun
    \/ AnalyzePipelineRun
    \/ SkipAnalysis
    \/ RespondTaskRun
    \/ RespondPipelineRun

HandlerSpec == HandlerInit /\ [][HandlerNext]_vars

\* ------------------------------------------- startListener and Run

ListenerFrame ==
    UNCHANGED << cacheVars, inspVars, prVars, snipVars, nsVars, httpVars, storeVars >>

\* serveCmd.Run has built the server and is about to call startListener.
ListenerInit ==
    /\ namespace = <<>>
    /\ ManagerBuilt
    /\ InspectorIdle
    /\ PipelineInspectorIdle
    /\ SnippetIdle
    /\ NamespaceIdle
    /\ HandlerIdle
    /\ StoreIdle
    /\ mainPc = "start"
    /\ sigPc = "idle"
    /\ srvPc = "idle"
    /\ wg = 0
    /\ idleConnsClosed = FALSE
    /\ inShutdown = FALSE
    /\ conns = 0
    /\ signalled = FALSE
    /\ exited = FALSE

\* The process runs: it has not been ended, and Run has not returned.
Running == ~exited /\ mainPc # "returned"

\* startListener makes the channel and starts the signal goroutine.
GoSignal ==
    /\ Running
    /\ mainPc = "start"
    /\ sigPc' = "new"
    /\ mainPc' = "add"
    /\ UNCHANGED << srvPc, wg, idleConnsClosed, inShutdown, conns, signalled, exited >>
    /\ ListenerFrame

\* wg.Add(1)
WgAdd ==
    /\ Running
    /\ mainPc = "add"
    /\ wg' = wg + 1
    /\ mainPc' = "spawn"
    /\ UNCHANGED << sigPc, srvPc, idleConnsClosed, inShutdown, conns, signalled, exited >>
    /\ ListenerFrame

\* startListener starts the serving goroutine and returns; Run calls wg.Wait.
GoServe ==
    /\ Running
    /\ mainPc = "spawn"
    /\ srvPc' = "new"
    /\ mainPc' = "wait"
    /\ UNCHANGED << sigPc, wg, idleConnsClosed, inShutdown, conns, signalled, exited >>
    /\ ListenerFrame

\* wg.Wait returns when the counter is zero, and Run returns.
WgWait ==
    /\ Running
    /\ mainPc = "wait"
    /\ wg = 0
    /\ mainPc' = "returned"
    /\ UNCHANGED << sigPc, srvPc, wg, idleConnsClosed, inShutdown, conns, signalled, exited >>
    /\ ListenerFrame

\* signal.Notify(sigint, SIGINT, SIGTERM)
SignalNotify ==
    /\ Running
    /\ sigPc = "new"
    /\ sigPc' = "wait"
    /\ UNCHANGED << mainPc, srvPc, wg, idleConnsClosed, inShutdown, conns, signalled, exited >>
    /\ ListenerFrame

\* Notify has been called: the signals are sent to the channel.
Notified == sigPc \in {"wait", "shutdown", "close", "stopped", "end"}

\* The process is sent SIGINT or SIGTERM: the signal goes to the channel,
\* of capacity 1, once Notify was called, and ends the process before.
SignalArrives ==
    /\ Running
    /\ IF Notified
       THEN signalled' = TRUE /\ UNCHANGED exited
       ELSE exited' = TRUE /\ UNCHANGED signalled
    /\ UNCHANGED << mainPc, sigPc, srvPc, wg, idleConnsClosed, inShutdown, conns >>
    /\ ListenerFrame

\* <-sigint receives, and h.Shutdown is called: the server is marked as
\* shutting down and its listeners are closed.
SignalReceived ==
    /\ Running
    /\ sigPc = "wait"
    /\ signalled
    /\ signalled' = FALSE
    /\ inShutdown' = TRUE
    /\ sigPc' = "shutdown"
    /\ UNCHANGED << mainPc, srvPc, wg, idleConnsClosed, conns, exited >>
    /\ ListenerFrame

\* h.Shutdown(context.Background()) returns once no connection is busy.
ShutdownReturns ==
    /\ Running
    /\ sigPc = "shutdown"
    /\ conns = 0
    /\ sigPc' = "close"
    /\ UNCHANGED << mainPc, srvPc, wg, idleConnsClosed, inShutdown, conns, signalled, exited >>
    /\ ListenerFrame

\* close(idleConnsClosed)
CloseIdleConnsClosed ==
    /\ Running
    /\ sigPc = "close"
    /\ idleConnsClosed' = TRUE
    /\ sigPc' = "stopped"
    /\ UNCHANGED << mainPc, srvPc, wg, inShutdown, conns, signalled, exited >>
    /\ ListenerFrame

\* h.log.Printf("stopped http server"), and the signal goroutine ends.
LogStopped ==
    /\ Running
    /\ sigPc = "stopped"
    /\ sigPc' = "end"
    /\ UNCHANGED << mainPc, srvPc, wg, idleConnsClosed, inShutdown, conns, signalled, exited >>
    /\ ListenerFrame

\* h.ListenAndServe() is called: it returns ErrServerClosed at once when
\* Shutdown was called before, and serves otherwise.
ListenAndServe ==
    /\ Running
    /\ srvPc = "new"
    /\ srvPc' = IF inShutdown THEN "closed" ELSE "serve"
    /\ UNCHANGED << mainPc, sigPc, wg, idleConnsClosed, inShutdown, conns, signalled, exited >>
    /\ ListenerFrame

\* ListenAndServe returns another error than ErrServerClosed (the address
\* is in use, Accept fails): h.log.Fatalf ends the process.
ListenAndServeFails ==
    /\ Running
    /\ srvPc \in {"new", "serve"}
    /\ ~inShutdown
    /\ exited' = TRUE
    /\ UNCHANGED << mainPc, sigPc, srvPc, wg, idleConnsClosed, inShutdown, conns, signalled >>
    /\ ListenerFrame

\* The server accepts a connection.
Accept ==
    /\ Running
    /\ srvPc = "serve"
    /\ ~inShutdown
    /\ conns < MaxConns
    /\ conns' = conns + 1
    /\ UNCHANGED << mainPc, sigPc, srvPc, wg, idleConnsClosed, inShutdown, signalled, exited >>
    /\ ListenerFrame

\* A connection's request is answered and the connection is idle or closed.
ConnDone ==
    /\ Running
    /\ conns > 0
    /\ conns' = conns - 1
    /\ UNCHANGED << mainPc, sigPc, srvPc, wg, idleConnsClosed, inShutdown, signalled, exited >>
    /\ ListenerFrame

\* ListenAndServe returns ErrServerClosed after Shutdown was called.
ServerClosed ==
    /\ Running
    /\ srvPc = "serve"
    /\ inShutdown
    /\ srvPc' = "closed"
    /\ UNCHANGED << mainPc, sigPc, wg, idleConnsClosed, inShutdown, conns, signalled, exited >>
    /\ ListenerFrame

\* A serving goroutine that does not wait for the channel.
IdleConnsClosedOrNot == TRUE

\* <-idleConnsClosed can receive: the channel is closed.
IdleConnsClosedReceives == idleConnsClosed

\* <-idleConnsClosed
AwaitIdleConnsClosed ==
    /\ Running
    /\ srvPc = "closed"
    /\ IdleConnsClosedReceives
    /\ srvPc' = "release"
    /\ UNCHANGED << mainPc, sigPc, wg, idleConnsClosed, inShutdown, conns, signalled, exited >>
    /\ ListenerFrame

\* wg.Done()
WgDone ==
    /\ Running
    /\ srvPc = "release"
    /\ wg' = wg - 1
    /\ srvPc' = "done"
    /\ UNCHANGED << mainPc, sigPc, idleConnsClosed, inShutdown, conns, signalled, exited >>
    /\ ListenerFrame

\* h.log.Printf("http server shutdown"), and the serving goroutine ends.
LogShutdown ==
    /\ Running
    /\ srvPc = "done"
    /\ srvPc' = "end"
    /\ UNCHANGED << mainPc, sigPc, wg, idleConnsClosed, inShutdown, conns, signalled, exited >>
    /\ ListenerFrame

ListenerNext ==
    \/ GoSignal
    \/ WgAdd
    \/ GoServe
    \/ WgWait
    \/ SignalNotify
    \/ SignalArrives
    \/ SignalReceived
    \/ ShutdownReturns
    \/ CloseIdleConnsClosed
    \/ LogStopped
    \/ ListenAndServe
    \/ ListenAndServeFails
    \/ Accept
    \/ ConnDone
    \/ ServerClosed
    \/ AwaitIdleConnsClosed
    \/ WgDone
    \/ LogShutdown

ListenerSpec == ListenerInit /\ [][ListenerNext]_vars

\* ------------------------------------- the indexers' thread-safe stores

StoreFrame ==
    UNCHANGED << cacheVars, inspVars, prVars, snipVars, nsVars, httpVars, lsnVars >>

\* The namespace index of a set of objects (MetaNamespaceIndexFunc): pairs
\* of namespace and key.
NamespaceIndex(objs) == {<<o.ns, KeyOf(o)>> : o \in objs}

\* items[key]: the object of the key, Nil when the map has none.
ItemAt(objs, key) ==
    IF \E o \in objs : KeyOf(o) = key
    THEN CHOOSE o \in objs : KeyOf(o) = key
    ELSE Nil

\* What a call returns on a store that holds objs: GetByKey gives the item
\* of the key, Index(NamespaceIndex) the items of the namespace.
ResultOn(objs, op, arg) ==
    IF op = "Get" THEN {ItemAt(objs, arg)} ELSE {o \in objs : o.ns = arg}

\* The calls a caller of the Service may make on the store of a kind.
StoreCalls ==
    [kind : Kinds, op : {"Get"}, arg : {KeyOf(ObjA)}]
        \cup [kind : Kinds, op : {"List"}, arg : {NsDefault}]

\* The events the informer of kind k may have to apply to its store; the
\* objects are created in the order A, B.
StoreEvents(k) ==
    {[type |-> "Added", obj |-> Obj(u, 1)] :
        u \in {v \in {ObjA, ObjB} :
                  /\ \A o \in stored[k] : KeyOf(o) # KeyOf(v)
                  /\ v = ObjB => \E o \in stored[k] : KeyOf(o) = KeyOf(ObjA)}}
    \cup {[type |-> "Modified", obj |-> Obj(Ident(o), o.gen + 1)] : o \in stored[k]}
    \cup {[type |-> "Deleted", obj |-> o] : o \in stored[k]}

\* NewManager has built three informers, each with its own indexer; Start
\* has started one Run goroutine for each.
StoreInit ==
    /\ namespace = <<>>
    /\ ManagerBuilt
    /\ InspectorIdle
    /\ PipelineInspectorIdle
    /\ SnippetIdle
    /\ NamespaceIdle
    /\ HandlerIdle
    /\ ListenerIdle
    /\ stored = [k \in Kinds |-> {}]
    /\ indices = [k \in Kinds |-> {}]
    /\ locked = [k \in Kinds |-> [w |-> FALSE, r |-> 0]]
    /\ wop = [k \in Kinds |-> Nil]
    /\ whole = [k \in Kinds |-> {}]
    /\ writes = MaxWrites
    /\ callers = [c \in 1..MaxCallers |-> Nil]

\* A Lock that does not wait for the readers to leave.
WriterAdmittedAmongReaders(k) == ~locked[k].w

\* RWMutex.Lock returns: no writer and no reader is inside.
WriterAdmitted(k) == ~locked[k].w /\ locked[k].r = 0

\* RWMutex.RLock returns: no writer is inside.
ReaderAdmitted(k) == ~locked[k].w

\* The items map after the event, and the indices after the event.
ItemsAfter(objs, e) ==
    IF e.type = "Deleted" THEN Remove(objs, e.obj) ELSE Upsert(objs, e.obj)

IndicesAfter(idx, e) ==
    IF e.type = "Deleted"
    THEN idx \ {<<e.obj.ns, KeyOf(e.obj)>>}
    ELSE idx \cup {<<e.obj.ns, KeyOf(e.obj)>>}

\* The informer of kind k takes its next event and the store's lock, and
\* makes the first of the event's two writes: Add and Update write the
\* items map first, Delete the indices.
WriterBegin(k) ==
    /\ writes > 0
    /\ wop[k] = Nil
    /\ WriterAdmitted(k)
    /\ \E e \in StoreEvents(k) :
          /\ wop' = [wop EXCEPT ![k] = e]
          /\ IF e.type = "Deleted"
             THEN /\ indices' = [indices EXCEPT ![k] = IndicesAfter(@, e)]
                  /\ UNCHANGED stored
             ELSE /\ stored' = [stored EXCEPT ![k] = ItemsAfter(@, e)]
                  /\ UNCHANGED indices
    /\ locked' = [locked EXCEPT ![k].w = TRUE]
    /\ writes' = writes - 1
    /\ UNCHANGED << whole, callers >>
    /\ StoreFrame

\* The informer makes the event's second write, and the deferred Unlock
\* runs: the event is applied.
WriterEnd(k) ==
    /\ wop[k] # Nil
    /\ stored' = [stored EXCEPT ![k] = ItemsAfter(whole[k], wop[k])]
    /\ indices' = [indices EXCEPT ![k] = IndicesAfter(NamespaceIndex(whole[k]), wop[k])]
    /\ whole' = [whole EXCEPT ![k] = ItemsAfter(whole[k], wop[k])]
    /\ locked' = [locked EXCEPT ![k].w = FALSE]
    /\ wop' = [wop EXCEPT ![k] = Nil]
    /\ UNCHANGED << writes, callers >>
    /\ StoreFrame

\* A caller of the Service makes a call and the store's RLock returns;
\* Index reads the namespace's set of keys.  The callers are numbered in
\* the order of their calls.
CallBegin(c) ==
    /\ callers[c] = Nil
    /\ \A b \in 1..(c - 1) : callers[b] # Nil
    /\ \E call \in StoreCalls :
          /\ ReaderAdmitted(call.kind)
          /\ locked' = [locked EXCEPT ![call.kind].r = @ + 1]
          /\ callers' = [callers EXCEPT ![c] =
                           [kind |-> call.kind, op |-> call.op, arg |-> call.arg,
                            pc |-> "items",
                            keys |-> IF call.op = "Get" THEN {call.arg}
                                     ELSE {p[2] : p \in {q \in indices[call.kind] : q[1] = call.arg}},
                            obs |-> {},
                            before |-> whole[call.kind], after |-> whole[call.kind]]]
    /\ UNCHANGED << stored, indices, wop, whole, writes >>
    /\ StoreFrame

\* GetByKey reads items[key], Index reads items[key] for every key of the
\* set; the deferred RUnlock runs and the call returns.
CallEnd(c) ==
    /\ callers[c] # Nil
    /\ callers[c].pc = "items"
    /\ callers' = [callers EXCEPT ![c].pc = "done",
                                  ![c].keys = {},
                                  ![c].obs = {ItemAt(stored[callers[c].kind], key) : key \in callers[c].keys},
                                  ![c].after = whole[callers[c].kind]]
    /\ locked' = [locked EXCEPT ![callers[c].kind].r = @ - 1]
    /\ UNCHANGED << stored, indices, wop, whole, writes >>
    /\ StoreFrame

StoreNext ==
    \/ \E k \in Kinds : WriterBegin(k)
    \/ \E k \in Kinds : WriterEnd(k)
    \/ \E c \in 1..MaxCallers : CallBegin(c)
    \/ \E c \in 1..MaxCallers : CallEnd(c)

StoreSpec == StoreInit /\ [][StoreNext]_vars

\* Every step of the informers and of Start is taken in the end: the
\* goroutines are scheduled, and the remote store answers when it has no
\* failure left to cause.
CacheFairness ==
    /\ \A k \in Kinds : WF_vars(ListOK(k))
    /\ \A k \in Kinds : WF_vars(WatchOpen(k))
    /\ \A k \in Kinds : WF_vars(WatchEvent(k))
    /\ WF_vars(StartReturnsNil)
    /\ WF_vars(StartReturnsCanceled)

\* The behaviours of a Manager of all namespaces under that fairness.
FairCacheInit == CacheInit /\ namespace = <<>>

FairCacheSpec == FairCacheInit /\ [][CacheNext]_vars /\ CacheFairness

\* ---------------------------------------------------------- the Service

NotFound == [found |-> FALSE]

\* Indexer.GetByKey.
GetByKey(k, key) ==
    IF \E o \in index[k] : KeyOf(o) = key
    THEN [found |-> TRUE, obj |-> CHOOSE o \in index[k] : KeyOf(o) = key]
    ELSE NotFound

NotFoundInCache ==
    <<" ","n","o","t"," ","f","o","u","n","d"," ","i","n"," ","c","a","c","h",
      "e">>

\* fmt.Errorf("<kind> %s not found in cache", key): an error that is no API
\* status and wraps nothing.
NotInCache(kind, key) ==
    [api |-> FALSE, reason |-> "", code |-> 0,
     text |-> kind \o <<" ">> \o key \o NotFoundInCache]

\* A point lookup of the Service: the object and a nil error when the
\* indexer has the key, and the error for the kind when it has not.
GetOrError(k, kind, key) ==
    LET r == GetByKey(k, key)
    IN IF r.found THEN [found |-> TRUE, obj |-> r.obj, err |-> Nil]
       ELSE [found |-> FALSE, err |-> NotInCache(kind, key)]

GetTaskRun(ns, name) ==
    GetOrError("taskrun", <<"t","a","s","k","r","u","n">>, Key(ns, name))

GetPipelineRun(ns, name) ==
    GetOrError("pipelinerun", <<"p","i","p","e","l","i","n","e","r","u","n">>,
               Key(ns, name))

GetPod(ns, name) == GetOrError("pod", <<"p","o","d">>, Key(ns, name))

\* ListAllByNamespace: the objects of a namespace ("" = every namespace)
\* that carry every label of the selector.
ListAllByNamespace(k, ns, sel) ==
    {o \in index[k] : (ns = <<>> \/ o.ns = ns) /\ sel \subseteq o.labels}

ListTaskRuns(ns, sel) == ListAllByNamespace("taskrun", ns, sel)

ListPipelineRuns(ns, sel) == ListAllByNamespace("pipelinerun", ns, sel)

ListPods(ns, sel) == ListAllByNamespace("pod", ns, sel)

Get(k, ns, name) ==
    CASE k = "pod"         -> GetPod(ns, name)
      [] k = "taskrun"     -> GetTaskRun(ns, name)
      [] k = "pipelinerun" -> GetPipelineRun(ns, name)

List(k, ns, sel) ==
    CASE k = "pod"         -> ListPods(ns, sel)
      [] k = "taskrun"     -> ListTaskRuns(ns, sel)
      [] k = "pipelinerun" -> ListPipelineRuns(ns, sel)

\* ------------------------------------------------- claims about the cache

Namespaces == {u.ns : u \in Universe}

Names == {u.name : u \in Universe}

Selectors == {{}} \cup {{l} : l \in UNION {u.labels : u \in Universe}}

Denied(ns) == ns = NsKubeSystem \/ ~allowNamespace(ns)

\* C1: no index holds, and no Get or List of the Service returns, an object
\* of a denied namespace (kube-system among them), whatever was listed and
\* whatever the watches delivered.
C1_DeniedNamespaceNeverMirrored ==
    \A k \in Kinds :
        /\ \A o \in index[k] : ~Denied(o.ns)
        /\ \A ns \in Namespaces : \A name \in Names :
               Denied(ns) => ~Get(k, ns, name).found
        /\ \A ns \in Namespaces \cup {<<>>} : \A sel \in Selectors :
               \A o \in List(k, ns, sel) : ~Denied(o.ns)

\* C1 witness: an informer that listed a remote store holding a
\* system-namespace object has, while watching, been sent an Added event of
\* a system-namespace object (it stays in the backlog behind the cursor:
\* WatchFunc dropped it).
C1_Witness ==
    \E k \in Kinds :
        /\ phase[k] = "watch"
        /\ synced[k]
        /\ cursor[k] > 0
        /\ backlog[k][cursor[k]].type = "Added"
        /\ backlog[k][cursor[k]].obj.ns = NsKubeSystem

\* The remote objects an informer subscribes to: in the Manager's namespace,
\* carrying the label where the kind selects by it, outside the system
\* namespaces.
Subscribed(k) ==
    {o \in remote[k] :
        /\ namespace = <<>> \/ o.ns = namespace
        /\ k = "pod" => HasLabel(o, TaskRunLabel)
        /\ ~Denied(o.ns)}

\* The events of the backlog that the informer has still to be sent.
Undelivered(k) ==
    IF phase[k] = "watch"
    THEN SubSeq(backlog[k], cursor[k] + 1, Len(backlog[k]))
    ELSE backlog[k]

\* An index after the subscribed events of a sequence are applied in order.
RECURSIVE Replay(_, _, _)
Replay(k, idx, evs) ==
    IF evs = <<>> THEN idx
    ELSE LET e == Head(evs)
             sub == /\ namespace = <<>> \/ e.obj.ns = namespace
                    /\ k = "pod" => HasLabel(e.obj, TaskRunLabel)
                    /\ ~Denied(e.obj.ns)
             next == IF ~sub THEN idx
                     ELSE IF e.type = "Deleted"
                          THEN {o \in idx : KeyOf(o) # KeyOf(e.obj)}
                          ELSE {o \in idx : KeyOf(o) # KeyOf(e.obj)} \cup {e.obj}
         IN Replay(k, next, Tail(evs))

\* C2 as stated: once Start has returned nil, a Get of the Service returns
\* every subscribed object that exists remotely.
C2_AsStated ==
    startPc = "ok" =>
        \A k \in Kinds : \A o \in Subscribed(k) :
            Get(k, o.ns, o.name) = [found |-> TRUE, obj |-> o, err |-> Nil]

\* C2, amended: once Start has returned nil, every index together with the
\* events its watch has still to deliver makes up exactly the subscribed
\* remote objects: no change after the list snapshot is missed, and a Get
\* returns every subscribed object whose last change has been delivered.
C2_ConvergesWithoutMissedEvents ==
    startPc = "ok" =>
        \A k \in Kinds :
            phase[k] \in {"connect", "watch"} =>
                Replay(k, index[k], Undelivered(k)) = Subscribed(k)

\* C2 witness: Start has returned nil and a subscribed object was created
\* remotely after an informer's list and before its watch started.
C2_Witness ==
    /\ startPc = "ok"
    /\ \E k \in Kinds :
          /\ phase[k] = "connect"
          /\ backlog[k] # <<>>
          /\ backlog[k][1].type = "Added"
          /\ backlog[k][1].obj \in Subscribed(k)
          /\ ~Get(k, backlog[k][1].obj.ns, backlog[k][1].obj.name).found

AllSynced == \A k \in Kinds : synced[k]

\* C3: Start has started the three informers when it waits; it returns
\* nil only when all three have synced and an error only when the context
\* is done; an informer that has not synced when the context is cancelled
\* does not sync afterwards, so that Start can only fail then; and a Start
\* that waits does return.
C3_StartBarrier ==
    /\ [](startPc = "ok" => AllSynced)
    /\ [](startPc = "canceled" => cancelled)
    /\ [](startPc # "idle" => \A k \in Kinds : phase[k] # "idle")
    /\ [][cancelled => synced' = synced]_vars
    /\ (startPc = "waiting") ~> (startPc = "ok" \/ startPc = "canceled")

\* C3 witness: the context was cancelled while an informer had not synced
\* and another had, and Start returned the error.
C3_Witness ==
    /\ startPc = "canceled"
    /\ \E k \in Kinds : synced[k]
    /\ \E k \in Kinds : ~synced[k]

Reconciled == \A k \in Kinds : index[k] = Subscribed(k)

Inspected == ipc = "done" /\ ierr = Nil

\* The status of the authoritative Succeeded condition: that of the first
\* condition of type Succeeded, "absent" when there is none.
Authoritative(t) ==
    IF \A i \in 1..Len(t.Conditions) : t.Conditions[i].Type # "Succeeded"
    THEN "absent"
    ELSE LET i == CHOOSE j \in 1..Len(t.Conditions) :
                     /\ t.Conditions[j].Type = "Succeeded"
                     /\ \A h \in 1..(j - 1) : t.Conditions[h].Type # "Succeeded"
         IN t.Conditions[i].Status

Failing(st) == st.Terminated # Nil /\ st.Terminated.ExitCode # 0

\* C6: a fetched TaskRun whose Succeeded condition is True is returned with
\* Succeeded = true and FailedStep and Error at their zero values; and no
\* returned record with Succeeded = true has a FailedStep or an Error.
C6_SucceededHasNoFailure ==
    ipc = "done" =>
        /\ (ierr = Nil /\ Authoritative(taskRun) = "True") =>
               (tri.Succeeded /\ tri.FailedStep = ZeroStepInfo /\ tri.Error = ZeroErrorInfo)
        /\ tri.Succeeded => (tri.FailedStep = ZeroStepInfo /\ tri.Error = ZeroErrorInfo)

\* C6 witness: a record was returned for a TaskRun whose Succeeded condition
\* is True although one of its steps exited non-zero.
C6_Witness ==
    /\ Inspected
    /\ Authoritative(taskRun) = "True"
    /\ \E i \in 1..Len(taskRun.Steps) : Failing(taskRun.Steps[i])
    /\ taskRun.PodName # <<>>

\* C7: a fetched TaskRun without a condition of type Succeeded (its
\* condition list may be empty) is returned with Succeeded = false.
C7_NoConditionNotSucceeded ==
    (Inspected /\ Authoritative(taskRun) = "absent") => ~tri.Succeeded

\* C7 witness: a record was returned for a TaskRun whose only conditions are
\* of another type and True.
C7_Witness ==
    /\ Inspected
    /\ taskRun.Conditions # <<>>
    /\ \A i \in 1..Len(taskRun.Conditions) :
          taskRun.Conditions[i].Type # "Succeeded" /\ taskRun.Conditions[i].Status = "True"

\* C8: in the record of a fetched TaskRun that is not succeeded, FailedStep
\* names the first step in declared order that terminated with a non-zero
\* exit code, with that exit code; it is the zero value when no step did.
C8_FirstFailedStepInDeclaredOrder ==
    (Inspected /\ ~tri.Succeeded) =>
        /\ \A i \in 1..Len(taskRun.Steps) :
              (Failing(taskRun.Steps[i])
                  /\ \A j \in 1..(i - 1) : ~Failing(taskRun.Steps[j])) =>
              tri.FailedStep = [Name |-> taskRun.Steps[i].Name,
                                ExitCode |-> taskRun.Steps[i].Terminated.ExitCode]
        /\ (\A i \in 1..Len(taskRun.Steps) : ~Failing(taskRun.Steps[i])) =>
              tri.FailedStep = ZeroStepInfo

\* C8 witness: a failed TaskRun whose steps b and a, declared in that order,
\* both exited non-zero with different codes, after a step that exited 0 or
\* not: the record names b.
C8_Witness ==
    /\ Inspected
    /\ ~tri.Succeeded
    /\ Len(taskRun.Steps) >= 2
    /\ taskRun.Steps[1].Name = <<"b">> /\ Failing(taskRun.Steps[1])
    /\ taskRun.Steps[2].Name = <<"a">> /\ Failing(taskRun.Steps[2])
    /\ taskRun.Steps[1].Terminated.ExitCode # taskRun.Steps[2].Terminated.ExitCode
    /\ tri.FailedStep.Name = <<"b">>

\* The class of a remote error: by its Status reason, and NotFound for a
\* 404 without a known reason.
ErrorClass(e) ==
    CASE e.api /\ e.reason = "NotFound" -> "NotFound"
      [] e.api /\ e.reason = "Forbidden" -> "Forbidden"
      [] e.api /\ e.reason = "Unauthorized" -> "Unauthorized"
      [] e.api /\ e.reason = "" /\ e.code = 404 -> "NotFound"
      [] OTHER -> "Unknown"

\* C9: when the Get of the TaskRun fails, InspectTaskRun returns the error
\* together with a record that carries the name and namespace asked for,
\* Succeeded = false, a zero FailedStep, and an Error of Type the class of
\* the error, Status "Error" and Message the error's text.
C9_GetFailureGivesPartialRecord ==
    (ipc = "done" /\ ierr # Nil) =>
        /\ ierr \in GetErrors
        /\ tri.TaskRun = InspName
        /\ tri.Namespace = InspNamespace
        /\ ~tri.Succeeded
        /\ tri.FailedStep = ZeroStepInfo
        /\ tri.Error.Type = ErrorClass(ierr)
        /\ tri.Error.Type \in {"NotFound", "Forbidden", "Unauthorized", "Unknown"}
        /\ tri.Error.Status = "Error"
        /\ tri.Error.Message = ierr.text

\* C9 witness: the Get failed with an Unauthorized status and the record
\* says so.
C9_Witness ==
    /\ ipc = "done"
    /\ ierr # Nil
    /\ ierr.reason = "Unauthorized"
    /\ tri.Error.Type = "Unauthorized"

\* C10: when the container log fetch fails, InspectTaskRun returns nil and
\* LogSnippet is the condition's message; a returned LogSnippet differs from
\* Message only after a log fetch that succeeded.
C10_LogFailureFallsBackToMessage ==
    ipc = "done" =>
        /\ logFetch = "failed" =>
               /\ ierr = Nil
               /\ tri.Error.LogSnippet = tri.Error.Message
               /\ tri.Error.Message = getSucceededConditionFields(taskRun).Message
        /\ tri.Error.LogSnippet # tri.Error.Message => logFetch = "ok"

\* C10 witness: a log fetch failed for a TaskRun whose condition has a
\* message, and InspectTaskRun has returned.
C10_Witness ==
    /\ ipc = "done"
    /\ logFetch = "failed"
    /\ logReqs # <<>>
    /\ tri.Error.Message # <<>>

\* C11 as stated: when the Get of the TaskRun or the fetch of the container
\* log was abandoned because the context was cancelled, InspectTaskRun
\* returns the cancellation error, and a record that carries no diagnosis.
C11_AsStated ==
    (ipc = "done" /\ (ierr = ContextCanceled \/ logErr = ContextCanceled)) =>
        /\ ierr = ContextCanceled
        /\ tri.Error = ZeroErrorInfo
        /\ tri.FailedStep = ZeroStepInfo

\* The fields of the first condition of type Succeeded, empty when there
\* is none.
SucceededCondition(t) ==
    IF \A i \in 1..Len(t.Conditions) : t.Conditions[i].Type # "Succeeded"
    THEN [Type |-> "", Status |-> "", Reason |-> "", Message |-> <<>>]
    ELSE t.Conditions[CHOOSE j \in 1..Len(t.Conditions) :
                         /\ t.Conditions[j].Type = "Succeeded"
                         /\ \A h \in 1..(j - 1) : t.Conditions[h].Type # "Succeeded"]

\* C12: in the record of a fetched TaskRun that is not succeeded, the Type,
\* Status, Reason and Message of Error are those of the Succeeded condition
\* and LogSnippet starts as Message; without a pod name or without a failed
\* step no log is requested and the returned LogSnippet is Message.
C12_ErrorCopiedFromCondition ==
    /\ (ipc \in {"logs", "done"} /\ ierr = Nil /\ ~tri.Succeeded) =>
           /\ tri.Error.Type = SucceededCondition(taskRun).Type
           /\ tri.Error.Status = SucceededCondition(taskRun).Status
           /\ tri.Error.Reason = SucceededCondition(taskRun).Reason
           /\ tri.Error.Message = SucceededCondition(taskRun).Message
           /\ ipc = "logs" => tri.Error.LogSnippet = tri.Error.Message
    /\ (Inspected /\ ~tri.Succeeded
           /\ (taskRun.PodName = <<>> \/ tri.FailedStep = ZeroStepInfo)) =>
           /\ logReqs = <<>>
           /\ logFetch = "none"
           /\ tri.Error.LogSnippet = tri.Error.Message

\* C12 witness: the TaskRun has Succeeded=False with reason
\* TaskRunImagePullFailed, one step that exited 1 and no pod name; the
\* record names the step and repeats the condition.
C12_Witness ==
    /\ Inspected
    /\ taskRun.PodName = <<>>
    /\ Len(taskRun.Conditions) = 1
    /\ taskRun.Conditions[1].Type = "Succeeded"
    /\ taskRun.Conditions[1].Status = "False"
    /\ taskRun.Conditions[1].Reason = "TaskRunImagePullFailed"
    /\ Len(taskRun.Steps) = 1
    /\ tri.FailedStep = [Name |-> taskRun.Steps[1].Name, ExitCode |-> 1]
    /\ tri.Error.Reason = "TaskRunImagePullFailed"
    /\ tri.Error.LogSnippet = taskRun.Conditions[1].Message
    /\ ~tri.Succeeded

\* ----------------------------------------- claims about extractErrorSnippet

Min(a, b) == IF a < b THEN a ELSE b

Max(a, b) == IF a > b THEN a ELSE b

\* The lines of the log given to extractErrorSnippet, counted from 0.
InLines == SplitLines(snipLog)

InLine(i) == InLines[i + 1]

\* The indices of the lines that hold a keyword in any case.
KeywordLines == {i \in 0..(Len(InLines) - 1) : IsErrorLine(InLine(i))}

\* The lines i .. j - 1 of the log.
Run(i, j) == SubSeq(InLines, i + 1, j)

\* A run of lines without the blank lines at its two ends.
BlankTrimmed(ls) ==
    IF \A i \in 1..Len(ls) : IsBlank(ls[i]) THEN <<>>
    ELSE LET a == CHOOSE i \in 1..Len(ls) :
                      ~IsBlank(ls[i]) /\ \A h \in 1..(i - 1) : IsBlank(ls[h])
             b == CHOOSE i \in 1..Len(ls) :
                      ~IsBlank(ls[i]) /\ \A h \in (i + 1)..Len(ls) : IsBlank(ls[h])
         IN SubSeq(ls, a, b)

\* A log of 1000 lines whose line 500 alone holds a keyword.
ThousandLines ==
    [i \in 1..1000 |-> IF i = 501 THEN <<"e","r","r","o","r">> ELSE <<"x">>]

\* Its window for n = 10.
ThousandWindow == SnippetWindow(ThousandLines, 10)

\* C13: with n > 0 and a line that holds a keyword, the result is the n
\* lines around the last such line m, from m - n/2 on, shifted to lie inside
\* the log, without the blank lines at its ends: the window holds line m and
\* min(n, L) lines; and a log of 1000 lines with its only keyword on line
\* 500 gives the window [495, 505) for n = 10.
C13_WindowAroundLastMatch ==
    /\ (spc = "done" /\ snipN > 0 /\ KeywordLines # {}) =>
           LET L == Len(InLines)
               m == CHOOSE i \in KeywordLines : \A j \in KeywordLines : j <= i
               from == Max(0, Min(m - (snipN \div 2), L - snipN))
               to == Min(L, from + snipN)
           IN  /\ from <= m /\ m < to
               /\ to - from = Min(snipN, L)
               /\ snipOut = JoinLines(BlankTrimmed(Run(from, to)))
               /\ \E i \in 1..Len(SplitLines(snipOut)) : SplitLines(snipOut)[i] = InLine(m)
    /\ spc = "done" => ThousandWindow = [start |-> 495, end |-> 505]
    /\ spc = "done" => (JoinLines(InLines) = snipLog
                          /\ \A i \in 1..Len(InLines) : ~Contains(InLines[i], <<"\n">>))

\* C13 witness: two lines hold a keyword, the last of them is the last line
\* of a log longer than n, and the window was shifted back to end with it.
C13_Witness ==
    /\ spc = "done"
    /\ snipN = 3
    /\ Len(InLines) = 4
    /\ KeywordLines = {0, 3}
    /\ snipOut = JoinLines(BlankTrimmed(Run(1, 4)))
    /\ snipOut # JoinLines(Run(1, 4))

\* C14: with n > 0 and no line that holds a keyword, the result is the last
\* n lines of the log (all of them when there are fewer) without the blank
\* lines at its ends; and whatever the log, the result has at most n lines
\* and is a run of consecutive lines of the log.
C14_LastLinesWhenNoMatch ==
    (spc = "done" /\ snipN > 0) =>
        LET L == Len(InLines)
        IN  /\ KeywordLines = {} =>
                   snipOut = JoinLines(BlankTrimmed(Run(Max(0, L - snipN), L)))
            /\ Len(SplitLines(snipOut)) <= snipN
            /\ \E i \in 0..L : \E j \in i..L :
                   /\ j - i <= snipN
                   /\ snipOut = JoinLines(Run(i, j))
                   /\ j > i => (~IsBlank(InLine(i)) /\ ~IsBlank(InLine(j - 1)))

\* C14 witness: no line holds a keyword, the log has more than n lines and
\* ends with a blank line, which the result has lost.
C14_Witness ==
    /\ spc = "done"
    /\ snipN = 2
    /\ KeywordLines = {}
    /\ Len(InLines) = 4
    /\ ~IsBlank(InLine(2))
    /\ IsBlank(InLine(3))
    /\ snipOut = InLine(2)

\* ----------------------------------------- claims about InspectPipelineRun

\* InspectPipelineRun has returned a record.
PipelineInspected == ppc = "done" /\ perr = Nil

\* The first condition of type Succeeded and status False of the PipelineRun.
FirstSucceededFalse(p) ==
    p.Conditions[CHOOSE i \in 1..Len(p.Conditions) :
        /\ p.Conditions[i].Type = "Succeeded" /\ p.Conditions[i].Status = "False"
        /\ \A j \in 1..(i - 1) :
              ~(p.Conditions[j].Type = "Succeeded" /\ p.Conditions[j].Status = "False")]

HasSucceededFalse(p) ==
    \E i \in 1..Len(p.Conditions) :
        p.Conditions[i].Type = "Succeeded" /\ p.Conditions[i].Status = "False"

\* The narrative an analysis belongs to, by the words it starts with.
Narratives(analysis) ==
    {n \in {FoundFailed, NoTaskRunsCreated, NoFailuresReported} : HasPrefix(analysis, n)}

\* C15: the analysis of a returned record is one of three narratives and of
\* one only: with failed TaskRuns, their number and their names; else with
\* no TaskRun listed, the "No TaskRuns were created" narrative; else the
\* "no TaskRuns reported failures" narrative with the number listed.
C15_OneOfThreeNarratives ==
    PipelineInspected =>
        LET failed == result.FailedTaskRuns
        IN  /\ Cardinality(Narratives(result.Analysis)) = 1
            /\ Len(failed) > 0 =>
                   result.Analysis =
                       FoundFailed \o <<Digits[Len(failed) + 1]>> \o FoundFailedRest
                           \o JoinComma([i \in 1..Len(failed) |-> failed[i].Name])
            /\ (Len(failed) = 0 /\ Len(taskRuns) = 0) =>
                   HasPrefix(result.Analysis, NoTaskRunsCreated)
            /\ (Len(failed) = 0 /\ Len(taskRuns) > 0) =>
                   result.Analysis =
                       NoFailuresReported \o <<Digits[Len(taskRuns) + 1]>> \o TaskRunsTotal

\* C15 witness: TaskRuns were listed, none of them failed, and the record
\* says that none reported a failure.
C15_Witness ==
    /\ PipelineInspected
    /\ Len(taskRuns) = 2
    /\ result.FailedTaskRuns = <<>>
    /\ HasPrefix(result.Analysis, NoFailuresReported)

\* The text each known reason gives when the condition has no message.
TextOfReason(reason) ==
    CASE reason = CouldntGetPipeline -> CouldntGetPipelineText
      [] reason = PipelineValidationFailed -> PipelineValidationFailedText
      [] reason = CouldntGetTask -> CouldntGetTaskText
      [] reason = InvalidWorkspaceBindings -> InvalidWorkspaceBindingsText
      [] reason = ParameterMissing -> ParameterMissingText
      [] reason = InvalidGraph -> InvalidGraphText

KnownPipelineReasons ==
    {CouldntGetPipeline, PipelineValidationFailed, CouldntGetTask,
     InvalidWorkspaceBindings, ParameterMissing, InvalidGraph}

\* C16 as stated: with no TaskRun listed and a Succeeded=False condition,
\* the narrative is fixed by the reason: each known reason gives its one
\* text, any other reason a message that contains the reason.
C16_AsStated ==
    (PipelineInspected /\ Len(taskRuns) = 0 /\ HasSucceededFalse(pipelineRun)) =>
        LET c == FirstSucceededFalse(pipelineRun)
        IN  IF c.Reason \in KnownPipelineReasons
            THEN result.Analysis = NoTaskRunsCreated \o TextOfReason(c.Reason)
            ELSE Contains(result.Analysis, c.Reason)

\* C16, amended: with no TaskRun listed and a Succeeded=False condition, the
\* narrative follows the reason of the first such condition: a fixed text
\* for five known reasons, "Pipeline validation failed: " and the
\* condition's message for PipelineValidationFailed, and for any other
\* reason the generic message with the reason and the message in it.
C16_NarrativeByReasonAndMessage ==
    (PipelineInspected /\ Len(taskRuns) = 0 /\ HasSucceededFalse(pipelineRun)) =>
        LET c == FirstSucceededFalse(pipelineRun)
        IN  result.Analysis = NoTaskRunsCreated \o
              (IF c.Reason = PipelineValidationFailed
               THEN PipelineValidationFailedText \o c.Message
               ELSE IF c.Reason \in KnownPipelineReasons
               THEN TextOfReason(c.Reason)
               ELSE FailedWithReason \o c.Reason \o <<"'", ":", " ">> \o c.Message)

\* C16 witness: no TaskRun was listed and the PipelineRun failed with
\* reason ParameterMissing; the record says that parameters are missing.
C16_Witness ==
    /\ PipelineInspected
    /\ Len(taskRuns) = 0
    /\ HasSucceededFalse(pipelineRun)
    /\ FirstSucceededFalse(pipelineRun).Reason = ParameterMissing
    /\ result.Analysis = NoTaskRunsCreated \o ParameterMissingText

\* C17: the phase of the record is Succeeded, Failed or Running as the first
\* Succeeded condition of the PipelineRun is True, False or Unknown, and
\* Unknown when it has none.
C17_PhaseFromSucceededCondition ==
    (ppc \in {"list", "done"} /\ result # Nil) =>
        /\ result.Status.Phase \in {"Succeeded", "Failed", "Running", "Unknown"}
        /\ Authoritative(pipelineRun) = "True" => result.Status.Phase = "Succeeded"
        /\ Authoritative(pipelineRun) = "False" => result.Status.Phase = "Failed"
        /\ Authoritative(pipelineRun) = "Unknown" => result.Status.Phase = "Running"
        /\ Authoritative(pipelineRun) = "absent" => result.Status.Phase = "Unknown"

\* C17 witness: a record was returned for a PipelineRun whose Succeeded
\* condition is Unknown, with phase Running.
C17_Witness ==
    /\ PipelineInspected
    /\ Authoritative(pipelineRun) = "Unknown"
    /\ result.Status.Phase = "Running"

\* The summaries of the TaskRuns whose Succeeded condition is False.
RECURSIVE FailedMembers(_)
FailedMembers(items) ==
    IF items = <<>> THEN <<>>
    ELSE (IF Authoritative(Head(items)) = "False"
          THEN <<[Name |-> Head(items).Name, Namespace |-> Head(items).Namespace,
                  Reason |-> SucceededCondition(Head(items)).Reason,
                  Message |-> SucceededCondition(Head(items)).Message]>>
          ELSE <<>>) \o FailedMembers(Tail(items))

\* C18 as stated: FailedTaskRuns holds the listed TaskRuns whose Succeeded
\* condition is False, each once and in list order, with the reason and the
\* message of that condition, and no TaskRun whose Succeeded condition is
\* True, Unknown or missing.
C18_AsStated ==
    PipelineInspected => result.FailedTaskRuns = FailedMembers(taskRuns)

\* C19: when the Get of the PipelineRun or the List of its TaskRuns fails,
\* InspectPipelineRun returns nil and an error that wraps the failure and
\* names the namespace and the name in its text before the failure's text;
\* a record is never returned with an error.
C19_FetchOrListFailureIsFatal ==
    /\ ppc = "done" => (result = Nil <=> perr # Nil)
    /\ (ppc = "done" /\ perr # Nil) =>
           /\ perr.cause \in GetErrors
           /\ \E prefix \in {GetPipelineRunFailed, ListTaskRunsFailed} :
                 perr.text = prefix \o InspNamespace \o <<"/">> \o InspName
                                 \o <<":", " ">> \o perr.cause.text
           /\ taskRuns = <<>>

\* C19 witness: the PipelineRun was fetched, the List of its TaskRuns was
\* refused, and InspectPipelineRun returned the error alone.
C19_Witness ==
    /\ ppc = "done"
    /\ result = Nil
    /\ HasPrefix(perr.text, ListTaskRunsFailed)
    /\ perr.cause.reason = "Forbidden"
    /\ HasSucceededFalse(pipelineRun)

\* ------------------------------------------- claims about the Service

\* C20 as stated: GetTaskRun, GetPipelineRun and GetPod return the indexed
\* object when the index holds the key namespace/name, and otherwise fail
\* with an error that is a NotFound by its type, whether the object exists
\* remotely or not.
C20_AsStated ==
    \A k \in Kinds : \A ns \in Namespaces : \A name \in Names :
        IF \E o \in index[k] : o.ns = ns /\ o.name = name
        THEN /\ Get(k, ns, name).found
             /\ Get(k, ns, name).obj \in index[k]
             /\ Get(k, ns, name).obj.ns = ns /\ Get(k, ns, name).obj.name = name
             /\ Get(k, ns, name).err = Nil
        ELSE /\ ~Get(k, ns, name).found
             /\ IsNotFound(Get(k, ns, name).err)

\* ------------------------------- more claims about InspectTaskRun

\* The TaskRun with the status of its first Succeeded condition replaced.
WithStatus(t, status) ==
    [t EXCEPT !.Conditions =
        [i \in 1..Len(t.Conditions) |->
            IF /\ t.Conditions[i].Type = "Succeeded"
               /\ \A h \in 1..(i - 1) : t.Conditions[h].Type # "Succeeded"
            THEN [t.Conditions[i] EXCEPT !.Status = status]
            ELSE t.Conditions[i]]]

\* The fields of a record that do not come from the container log.
BeforeLogs(info) == [info EXCEPT !.Error.LogSnippet = <<>>]

\* C25: the status of the first condition of type Succeeded decides the
\* record of a fetched TaskRun: True gives Succeeded = true and nothing
\* else does; False gives Succeeded = false with Error.Status "False";
\* Unknown gives Succeeded = false with Error.Status "Unknown", and that
\* record differs from the one of the same TaskRun with status False in
\* Error.Status only (the log snippet aside).
C25_StatusDeterminesOutcome ==
    Inspected =>
        /\ tri.Succeeded <=> Authoritative(taskRun) = "True"
        /\ Authoritative(taskRun) = "False" => tri.Error.Status = "False"
        /\ Authoritative(taskRun) = "Unknown" =>
              /\ ~tri.Succeeded
              /\ tri.Error.Status = "Unknown"
              /\ BeforeLogs([tri EXCEPT !.Error.Status = "False"])
                    = BeforeLogs(InspectFetched(InspName, InspNamespace,
                                                WithStatus(taskRun, "False")))

\* C25 witness: the TaskRun's conditions are Succeeded/Unknown followed by
\* Succeeded/False, one of its steps exited non-zero, and the record says
\* Unknown.
C25_Witness ==
    /\ Inspected
    /\ Len(taskRun.Conditions) = 2
    /\ taskRun.Conditions[1].Type = "Succeeded" /\ taskRun.Conditions[1].Status = "Unknown"
    /\ taskRun.Conditions[2].Type = "Succeeded" /\ taskRun.Conditions[2].Status = "False"
    /\ \E i \in 1..Len(taskRun.Steps) : Failing(taskRun.Steps[i])
    /\ tri.Error.Status = "Unknown"
    /\ ~tri.Succeeded

\* No two steps of the TaskRun have the same name (Tekton rejects a Task
\* whose step names repeat).
UniqueStepNames(t) ==
    \A i, j \in 1..Len(t.Steps) : t.Steps[i].Name = t.Steps[j].Name => i = j

\* The first step in declared order that exited non-zero.
FailedStepOf(t) ==
    t.Steps[CHOOSE i \in 1..Len(t.Steps) :
               /\ Failing(t.Steps[i])
               /\ \A j \in 1..(i - 1) : ~Failing(t.Steps[j])]

SystemNamespace(ns) ==
    \/ HasPrefix(ns, <<"o","p","e","n","s","h","i","f","t","-">>)
    \/ HasPrefix(ns, <<"k","u","b","e","-">>)
    \/ ns = <<"o","p","e","n","-","c","l","u","s","t","e","r","-","m","a",
                "n","a","g","e","m","e","n","t","-","a","g","e","n","t","-",
                "a","d","d","o","n">>
    \/ ns = <<"o","p","e","n","-","c","l","u","s","t","e","r","-","m","a",
                "n","a","g","e","m","e","n","t","-","a","g","e","n","t">>
    \/ ns = <<"d","e","d","i","c","a","t","e","d","-","a","d","m","i","n">>

\* C30: allowNamespace answers every name, false exactly for the names that
\* begin with "openshift-" or "kube-" or are open-cluster-management-agent-addon,
\* open-cluster-management-agent or dedicated-admin, and true for every
\* other name, the empty one included; the call changes nothing else.
C30_DenylistExactly ==
    /\ nsOut \in BOOLEAN
    /\ npc = "done" => (nsOut <=> ~SystemNamespace(nsArg))
    /\ (npc = "done" /\ nsArg = <<>>) => nsOut
    /\ ManagerBuilt

\* C30 witness: the filter was asked about my-kube-system, which holds
\* "kube-" but does not begin with it, and allowed it.
C30_Witness ==
    /\ npc = "done"
    /\ nsArg = <<"m","y","-","k","u","b","e","-","s","y","s","t","e","m">>
    /\ nsOut

\* --------------------------------------- claims about the HTTP handlers

\* A member of a JSON object, "" when the object does not have it.
Field(object, name) == IF name \in DOMAIN object THEN object[name] ELSE <<>>

\* The request is one of /taskrun/explainFailure.
TaskRunRequest == req.path = TaskRunPath

\* InspectTaskRun has returned to the handler, with or without an error.
TaskRunInspected == TaskRunRequest /\ ipc = "done"

\* C22: in a /taskrun/explainFailure request the inspection is made only
\* for a request with both parameters; when InspectTaskRun returns an error
\* the response is 500 and Analyze is not called; Analyze is called at most
\* once and only after InspectTaskRun returned without an error; and a 200
\* response is written only then, after the analysis step.
C22_FlowOrder ==
    TaskRunRequest =>
        /\ hpc \in {"inspect", "llm", "respond"} => resp = Nil
        /\ ipc = "done" => (req.taskrun # <<>> /\ req.namespace # <<>>)
        /\ (ipc = "done" /\ ierr # Nil) =>
              /\ hpc = "done"
              /\ resp.status = 500
              /\ llmCalls = <<>>
        /\ Len(llmCalls) <= 1
        /\ llmCalls # <<>> =>
              /\ ipc = "done" /\ ierr = Nil
              /\ hpc \in {"respond", "done"}
              /\ llmCalls[1].prompt = BuildTaskRunPrompt(tri)
        /\ (resp # Nil /\ resp.status = 200) =>
              /\ ipc = "done" /\ ierr = Nil
              /\ hpc = "done"
              /\ llm # Nil => Len(llmCalls) = 1

\* C22 witness: the server has an LLM, the Get of the TaskRun was refused,
\* and the request has been answered.
C22_Witness ==
    /\ TaskRunInspected
    /\ hpc = "done"
    /\ llm # Nil
    /\ ierr # Nil
    /\ ierr.reason = "Forbidden"
    /\ resp.status = 500

C24_ExplainsFailedTaskRun ==
    (TaskRunInspected /\ ierr = Nil /\ hpc = "done"
        /\ Authoritative(taskRun) = "False"
        /\ \E i \in 1..Len(taskRun.Steps) : Failing(taskRun.Steps[i])) =>
        /\ resp.status = 200
        /\ resp.body.debug.taskrun = req.taskrun
        /\ resp.body.debug.namespace = req.namespace
        /\ resp.body.debug.succeeded = FALSE
        /\ resp.body.debug.failed_step.exit_code # 0
        /\ (llmCalls # <<>> /\ llmCalls[1].ret.err = Nil) =>
              Field(resp.body, "analysis") = llmCalls[1].ret.out

\* C24 witness: the failed TaskRun with a pod, the LLM has answered
\* mock-analysis, and the response carries it.
C24_Witness ==
    /\ TaskRunInspected
    /\ hpc = "done"
    /\ Authoritative(taskRun) = "False"
    /\ taskRun.PodName # <<>>
    /\ resp.status = 200
    /\ resp.body.debug.failed_step.exit_code = 1
    /\ llmCalls # <<>>
    /\ Field(resp.body, "analysis") = MockAnalysis

\* The request is one of /pipelinerun/explainFailure.
PipelineRunRequest == req.path = PipelineRunPath

\* The analysis InspectPipelineRun wrote for what it fetched and listed.
InspectorAnalysis ==
    AnalysisOf(pipelineRun, taskRuns, FailedTaskRunsOf(taskRuns))

\* C28 as stated: in a /pipelinerun/explainFailure request Analyze is
\* called only when the List returned no TaskRun of the PipelineRun; when
\* it returned some, the response's analysis is the inspector's; and when
\* Analyze returns an error the response is 200 with the inspector's
\* analysis.
C28_AsStated ==
    (PipelineRunRequest /\ ppc = "done" /\ perr = Nil) =>
        /\ llmCalls # <<>> => taskRuns = <<>>
        /\ (hpc = "done" /\ taskRuns # <<>>) =>
              resp.body.analysis = InspectorAnalysis
        /\ (hpc = "done" /\ llmCalls # <<>> /\ llmCalls[1].ret.err # Nil) =>
              /\ resp.status = 200
              /\ resp.body.analysis = InspectorAnalysis

\* ----------------------------------------------- claims about startListener

\* wg.Done has been called.
Released == srvPc \in {"done", "end"}

\* C27: the WaitGroup is released, and Run returns, only after a signal was
\* received and Shutdown has returned with no connection busy and the
\* channel was closed; the counter changes only by the Add(1) of
\* startListener and by one Done, made by the serving goroutine after
\* ListenAndServe returned ErrServerClosed and <-idleConnsClosed received.
C27_GracefulShutdown ==
    /\ [](/\ wg \in {0, 1}
          /\ srvPc \in {"release", "done", "end"} =>
                /\ sigPc \in {"stopped", "end"}
                /\ inShutdown
                /\ idleConnsClosed
                /\ conns = 0
          /\ Released <=> (wg = 0 /\ mainPc \in {"wait", "returned"})
          /\ mainPc = "returned" => (Released /\ ~exited))
    /\ [][wg' # wg =>
            \/ wg = 0 /\ wg' = 1 /\ mainPc = "add" /\ srvPc = "idle"
            \/ wg = 1 /\ wg' = 0 /\ srvPc = "release" /\ srvPc' = "done"]_vars

\* C27 witness: Run has returned after the shutdown, before the signal
\* goroutine wrote its last log line.
C27_Witness ==
    /\ mainPc = "returned"
    /\ Released
    /\ wg = 0
    /\ idleConnsClosed
    /\ sigPc = "stopped"

\* ------------------------------------------- the index as a replay

\* The index has at most one object per key.
OnePerKey(idx) == \A a \in idx, b \in idx : KeyOf(a) = KeyOf(b) => a = b

\* The event the open watch of kind k delivers next, as a set: empty when
\* there is none or when WatchFunc does not let it through.
Delivered(k) ==
    IF phase[k] = "watch" /\ cursor[k] < Len(backlog[k])
    THEN {e \in {backlog[k][cursor[k] + 1]} : WatchFunc(k, e)}
    ELSE {}

\* The informer of kind k takes a list result in this step.
Lists(k) == phase[k] = "list" /\ phase'[k] = "connect"

\* The informer of kind k takes a delivered event off its stream in this
\* step.
Takes(k) == phase[k] = "watch" /\ Len(backlog'[k]) < Len(backlog[k])

====
